---------------------------- MODULE Spec2Model ----------------------------
(***************************************************************************)
(* Model of the sentiment aggregation and classification code of the       *)
(* Reddit ingredient analyser.                                             *)
(*                                                                         *)
(* Conventions                                                             *)
(*  - A Python str is a sequence of one-character strings, so that         *)
(*    lower(), strip(), `in` and the regular expressions are computed.     *)
(*  - A Python dict is a TLA+ record; a missing key is a missing field     *)
(*    (see Get).                                                           *)
(*  - A VADER compound score is an integer number of hundredths            *)
(*    (0.05 is 5, -1.0 is -100).  Quotients are kept exact as a record     *)
(*    [num, den] (see the Rat operators).                                  *)
(*  - vader_analyzer.polarity_scores is a library call: the compound it    *)
(*    returns for a text travels with the text as vader_compound.          *)
(*  - The fields pos/neg/neu, ingredient_specific, comment_length and the  *)
(*    counters derived from them are left out; no operation modelled here  *)
(*    branches on them.                                                    *)
(***************************************************************************)
EXTENDS Integers, Sequences, FiniteSets, TLC

VARIABLES
    VADER_AVAILABLE,   \* module flag set by the import of vaderSentiment
    comment_data,      \* argument of analyze_comment_sentiment
    sentiment_result,  \* its return value
    legacy_sentiment,  \* return value of analyze_sentiment
    program,           \* the script that runs: "connector" or "k18"
    min_sample_size,   \* local of main, passed to fetch_post_comments
    response,          \* what the server answers to GET /comments/<post_id>
    post_context,      \* the post whose comments are fetched
    fetch_ret,         \* return value of fetch_post_comments
    vader_ready,       \* module flag of reddit_ingredient_stats
    search_results,    \* per ingredient of the list: what the searches answer
    idx,               \* loop index of batch_ingredient_stats
    all_stats,         \* the statistics collected so far
    out_file,          \* content of the written statistics file, or None
    all_posts,         \* the post list given to the ingredient-level fold
    profiles,          \* what the calls of the ingredient-level fold returned
    k18_profiles,      \* what the fold of k18_hair_mask_extractor returned
    subreddit_sentiments, \* what calculate_sentiment_by_subreddit returned
    title,             \* categorize_post_intent: its three arguments
    body,
    comments_text,
    categories,        \* what categorize_post_intent returned, or None
    functions,         \* classify_skin_hair_usage: its two arguments
    inci_name,
    skin_hair_usage,   \* what classify_skin_hair_usage returned
    benefit_text,      \* extract_benefit_statements: its three arguments
    target_ingredient,
    positive,
    statements,        \* what extract_benefit_statements returned
    max_results,       \* search_reddit: its argument and its locals
    all_results,
    after,
    fetched,
    pc                 \* position of the program under analysis

scoreVars == <<comment_data, sentiment_result, legacy_sentiment>>

postVars == <<program, min_sample_size, response, post_context, fetch_ret>>

statsVars == <<vader_ready, search_results, idx, all_stats, out_file>>

ingredientVars == <<all_posts, profiles, k18_profiles, subreddit_sentiments>>

intentVars == <<title, body, comments_text, categories>>

usageVars == <<functions, inci_name, skin_hair_usage>>

benefitVars == <<benefit_text, target_ingredient, positive, statements>>

searchVars == <<max_results, all_results, after, fetched>>

vars == <<VADER_AVAILABLE, scoreVars, postVars, statsVars, ingredientVars,
          intentVars, usageVars, benefitVars, searchVars, pc>>

\* Python None, and the value of a variable not yet assigned
None == [none |-> TRUE]

(***************************************************************************)
(* Python helpers                                                          *)
(***************************************************************************)

\* dict.get(key, default)
Get(d, key, default) == IF key \in DOMAIN d THEN d[key] ELSE default

Max(a, b) == IF a >= b THEN a ELSE b

Min(a, b) == IF a <= b THEN a ELSE b

\* seq[:n]
Take(seq, n) == SubSeq(seq, 1, Min(n, Len(seq)))

RECURSIVE SumSeq(_)
\* sum(seq)
SumSeq(seq) ==
    IF seq = <<>> THEN 0 ELSE seq[1] + SumSeq(Tail(seq))

\* a sort that puts an element before the elements of equal key: a
\* plausible slip of the code
InsertDescUnstable(sorted, x) ==
    LET k == Cardinality({i \in 1..Len(sorted) : sorted[i].key > x.key})
    IN  SubSeq(sorted, 1, k) \o <<x>> \o SubSeq(sorted, k + 1, Len(sorted))

\* list.sort(key=..., reverse=True) on a list of [key, val]: descending by
\* key, elements of equal key keep their order (the sort is stable)
InsertDesc(sorted, x) ==
    LET k == Cardinality({i \in 1..Len(sorted) : sorted[i].key >= x.key})
    IN  SubSeq(sorted, 1, k) \o <<x>> \o SubSeq(sorted, k + 1, Len(sorted))

RECURSIVE SortDesc(_)
SortDesc(seq) ==
    IF seq = <<>> THEN <<>>
    ELSE InsertDesc(SortDesc(SubSeq(seq, 1, Len(seq) - 1)), seq[Len(seq)])

Abs(a) == IF a >= 0 THEN a ELSE -a

UpperCase == <<"A","B","C","D","E","F","G","H","I","J","K","L","M",
               "N","O","P","Q","R","S","T","U","V","W","X","Y","Z">>

LowerCase == <<"a","b","c","d","e","f","g","h","i","j","k","l","m",
               "n","o","p","q","r","s","t","u","v","w","x","y","z">>

LowerChar(c) ==
    IF \E i \in 1..26 : UpperCase[i] = c
    THEN LowerCase[CHOOSE i \in 1..26 : UpperCase[i] = c]
    ELSE c

\* str.lower()
Lower(s) == [i \in 1..Len(s) |-> LowerChar(s[i])]

IsSpace(c) == c \in {" ", "\t", "\n", "\r"}

\* str.strip()
Strip(s) ==
    IF \A i \in 1..Len(s) : IsSpace(s[i])
    THEN <<>>
    ELSE LET first == CHOOSE i \in 1..Len(s) :
                        /\ ~IsSpace(s[i])
                        /\ \A j \in 1..(i-1) : IsSpace(s[j])
             last  == CHOOSE i \in 1..Len(s) :
                        /\ ~IsSpace(s[i])
                        /\ \A j \in (i+1)..Len(s) : IsSpace(s[j])
         IN  SubSeq(s, first, last)

\* sub in text
Contains(text, sub) ==
    \E i \in 0..(Len(text) - Len(sub)) : SubSeq(text, i + 1, i + Len(sub)) = sub

\* any(word in text for word in words)
AnyWordIn(words, text) == \E k \in 1..Len(words) : Contains(text, words[k])

\* exact quotient num/den, den > 0
Rat(n, d) == [num |-> n, den |-> d]

RatZero == Rat(0, 1)

\* r >= k/100 and r <= k/100 for a value r in hundredths
RatGeq(r, k) == r.num >= k * r.den
RatLeq(r, k) == r.num <= k * r.den
RatEq(r, s) == r.num * s.den = s.num * r.den

(***************************************************************************)
(* analyze_comment_sentiment  (misc_py_root/reddit_api_connector.py)       *)
(***************************************************************************)

Deleted == <<"[","d","e","l","e","t","e","d","]">>
Removed == <<"[","r","e","m","o","v","e","d","]">>

PositiveWords ==
  << <<"g","o","o","d">>,
     <<"g","r","e","a","t">>,
     <<"l","o","v","e">>,
     <<"a","m","a","z","i","n","g">>,
     <<"b","e","s","t">>,
     <<"r","e","c","o","m","m","e","n","d">>,
     <<"s","a","f","e">> >>

NegativeWords ==
  << <<"b","a","d">>,
     <<"h","a","t","e">>,
     <<"a","v","o","i","d">>,
     <<"d","a","n","g","e","r","o","u","s">>,
     <<"t","o","x","i","c">>,
     <<"h","a","r","m","f","u","l">>,
     <<"w","o","r","s","t">> >>

\* the band applied by a strict comparison: a plausible slip of the code
SentimentCategoryStrict(compound) ==
    IF compound > 5 THEN "positive"
    ELSE IF compound < -5 THEN "negative"
    ELSE "neutral"

\* if compound >= 0.05 ... elif compound <= -0.05 ... else
SentimentCategory(compound) ==
    IF compound >= 5 THEN "positive"
    ELSE IF compound <= -5 THEN "negative"
    ELSE "neutral"

\* the multiplier taken as the score itself: a plausible slip of the code
ScoreFloorMissing(comment_score) == comment_score

\* max(comment_score, 1)
ScoreFloor(comment_score) == Max(comment_score, 1)

\* the upvotes left out of the weight: a plausible slip of the code
WeightedScoreUnweighted(compound, comment_score) == compound

\* weighted_score = compound * max(comment_score, 1)
WeightedScore(compound, comment_score) == compound * ScoreFloor(comment_score)

\* the two lists tried in the other order: a plausible slip of the code
FallbackPolarityNegativeFirst(text) ==
    IF AnyWordIn(NegativeWords, text) THEN -1
    ELSE IF AnyWordIn(PositiveWords, text) THEN 1
    ELSE 0

\* the two `if any(word in text ...)` of the fallback, on the lower-cased
\* text: 1 for the first list, -1 for the second, 0 for neither
FallbackPolarity(text) ==
    IF AnyWordIn(PositiveWords, text) THEN 1
    ELSE IF AnyWordIn(NegativeWords, text) THEN -1
    ELSE 0

\* the branch taken when VADER is not installed
FallbackSentiment(cd) ==
    LET text == Lower(Get(cd, "body", <<>>))
        polarity == FallbackPolarity(text)
    IN  IF polarity = 1
        THEN [compound |-> 50, sentiment_category |-> "positive",
              confidence |-> 50,
              weighted_score |-> 50 * ScoreFloor(Get(cd, "score", 1)),
              fallback_analysis |-> TRUE]
        ELSE IF polarity = -1
        THEN [compound |-> -50, sentiment_category |-> "negative",
              confidence |-> 50,
              weighted_score |-> (-50) * ScoreFloor(Get(cd, "score", 1)),
              fallback_analysis |-> TRUE]
        ELSE [compound |-> 0, sentiment_category |-> "neutral",
              confidence |-> 0, weighted_score |-> 0,
              fallback_analysis |-> TRUE]

\* only the empty text taken for unscorable: a plausible slip of the code
IsUnscorableEmptyOnly(comment_text) == comment_text = <<>>

\* not comment_text or comment_text in ['[deleted]', '[removed]']
IsUnscorable(comment_text) ==
    comment_text = <<>> \/ comment_text \in {Deleted, Removed}

analyze_comment_sentiment(cd, vader) ==
    IF ~vader THEN FallbackSentiment(cd)
    ELSE LET comment_text == Get(cd, "body", <<>>)
         IN  IF IsUnscorable(comment_text)
             THEN [compound |-> 0, sentiment_category |-> "neutral",
                   confidence |-> 0, weighted_score |-> 0]
             ELSE LET compound == cd.vader_compound
                      comment_score == Get(cd, "score", 0)
                  IN  [compound |-> compound,
                       sentiment_category |-> SentimentCategory(compound),
                       confidence |-> Abs(compound),
                       weighted_score |-> WeightedScore(compound, comment_score)]

\* analyze_sentiment(text): the legacy scorer, 1, -1 or 0
analyze_sentiment(item, vader) ==
    IF ~vader THEN FallbackPolarity(Lower(item.body))
    ELSE IF item.vader_compound >= 5 THEN 1
    ELSE IF item.vader_compound <= -5 THEN -1
    ELSE 0

(***************************************************************************)
(* Specification SpecScore: one call of analyze_comment_sentiment, or of   *)
(* analyze_sentiment on the text of the comment                            *)
(***************************************************************************)

\* comment bodies offered to the scorer
BodyPool ==
    { <<>>,
      Deleted,
      Removed,
      <<"G","r","e","a","t"," ","s","t","u","f","f">>,   \* "Great stuff"
      <<"W","O","R","S","T"," ","e","v","e","r">>,       \* "WORST ever"
      <<"g","o","o","d"," ","b","u","t"," ","t","o","x","i","c">>, \* "good but toxic"
      <<"m","e","h"," ","o","k">> }                      \* "meh ok"

ScorePool == {-3, 0, 1, 10}

Compounds == -100..100

CommentInputs ==
    { [body |-> b, score |-> s, vader_compound |-> c] :
        b \in BodyPool, s \in ScorePool, c \in Compounds }
    \cup { [score |-> s, vader_compound |-> 0] : s \in ScorePool }
    \cup { [body |-> b, vader_compound |-> c] : b \in BodyPool, c \in {-5, 5} }

\* the variables of the post-level code, when no post is processed
IdlePost ==
    /\ program = "none"
    /\ min_sample_size = 0
    /\ response = None
    /\ post_context = None
    /\ fetch_ret = None

\* the variables of the statistics scripts, when they do not run
IdleStats ==
    /\ vader_ready = FALSE
    /\ search_results = <<>>
    /\ idx = 0
    /\ all_stats = <<>>
    /\ out_file = None

\* the variables of the ingredient-level fold, when it does not run
IdleIngredient ==
    /\ all_posts = <<>>
    /\ profiles = <<>>
    /\ k18_profiles = <<>>
    /\ subreddit_sentiments = None

\* the variables of categorize_post_intent, when it does not run
IdleIntent ==
    /\ title = <<>>
    /\ body = <<>>
    /\ comments_text = <<>>
    /\ categories = None

\* the arguments of classify_skin_hair_usage: None or a list for functions
NoneArg == [kind |-> "None"]
ListArg(items) == [kind |-> "list", items |-> items]

\* skin_hair_usage before the assignment
Unassigned == "unassigned"

\* the variables of classify_skin_hair_usage, when it does not run
\* the variables of extract_benefit_statements, when it is not the call
\* under analysis
IdleBenefit ==
    /\ benefit_text = <<>>
    /\ target_ingredient = NoneArg
    /\ positive = TRUE
    /\ statements = <<>>

\* the variables of search_reddit, when it is not the call under analysis
IdleSearch ==
    /\ max_results = 0
    /\ all_results = <<>>
    /\ after = None
    /\ fetched = 0

IdleUsage ==
    /\ functions = NoneArg
    /\ inci_name = <<>>
    /\ skin_hair_usage = Unassigned

InitScore ==
    /\ VADER_AVAILABLE \in BOOLEAN
    /\ comment_data \in CommentInputs
    /\ sentiment_result = None
    /\ legacy_sentiment = 0
    /\ pc = "call"
    /\ IdlePost
    /\ IdleStats
    /\ IdleIngredient
    /\ IdleIntent
    /\ IdleUsage
    /\ IdleBenefit
    /\ IdleSearch

AnalyzeCommentSentiment ==
    /\ pc = "call"
    /\ sentiment_result' = analyze_comment_sentiment(comment_data, VADER_AVAILABLE)
    /\ pc' = "returned"
    /\ UNCHANGED <<VADER_AVAILABLE, benefitVars, searchVars, comment_data, legacy_sentiment, postVars,
                   statsVars, ingredientVars, intentVars, usageVars>>

\* analyze_sentiment takes a str: the call is made on a body that is there
AnalyzeSentiment ==
    /\ pc = "call"
    /\ "body" \in DOMAIN comment_data
    /\ legacy_sentiment' = analyze_sentiment(comment_data, VADER_AVAILABLE)
    /\ pc' = "returned_legacy"
    /\ UNCHANGED <<VADER_AVAILABLE, benefitVars, searchVars, comment_data, sentiment_result, postVars,
                   statsVars, ingredientVars, intentVars, usageVars>>

NextScore ==
    \/ AnalyzeCommentSentiment
    \/ AnalyzeSentiment

SpecScore == InitScore /\ [][NextScore]_vars

\* C1: every result of analyze_comment_sentiment carries exactly one
\* category, and that category is positive iff compound >= 0.05, negative
\* iff compound <= -0.05 and neutral otherwise.
C1_ThresholdBand ==
    pc = "returned" =>
        /\ sentiment_result.sentiment_category \in {"positive", "negative", "neutral"}
        /\ (sentiment_result.sentiment_category = "positive")
              <=> (sentiment_result.compound >= 5)
        /\ (sentiment_result.sentiment_category = "negative")
              <=> (sentiment_result.compound <= -5)
        /\ (sentiment_result.sentiment_category = "neutral")
              <=> (sentiment_result.compound > -5 /\ sentiment_result.compound < 5)

\* a comment scored by VADER exactly on the positive bound
C1_Witness ==
    /\ pc = "returned"
    /\ VADER_AVAILABLE
    /\ sentiment_result.compound = 5
    /\ sentiment_result.sentiment_category = "positive"
    /\ Get(comment_data, "body", <<>>) \notin {<<>>, Deleted, Removed}

\* the body of the comment under analysis, '' when there is none
CommentBody == Get(comment_data, "body", <<>>)

\* C11: for a comment whose body is empty, missing, "[deleted]" or
\* "[removed]", analyze_comment_sentiment returns compound 0, category
\* neutral, confidence 0 and weighted_score 0, whatever the score of the
\* comment and whether VADER is installed or not.
C11_TombstoneFixedResult ==
    (pc = "returned" /\ CommentBody \in {<<>>, Deleted, Removed}) =>
        /\ sentiment_result.compound = 0
        /\ sentiment_result.sentiment_category = "neutral"
        /\ sentiment_result.confidence = 0
        /\ sentiment_result.weighted_score = 0

\* a removed comment with ten upvotes, for which the lexicon would have given
\* a compound, got the fixed result
C11_Witness ==
    /\ pc = "returned"
    /\ VADER_AVAILABLE
    /\ CommentBody = Removed
    /\ Get(comment_data, "score", 0) = 10
    /\ comment_data.vader_compound = 80
    /\ sentiment_result.weighted_score = 0

\* C12: weighted_score = compound * max(score, 1) in every result; a score
\* of zero or less leaves weighted_score = compound, weighted_score has the
\* sign of compound and |weighted_score| >= |compound|.
C12_WeightFloor ==
    pc = "returned" =>
        LET score == Get(comment_data, "score", 0)
            multiplier == IF score > 1 THEN score ELSE 1
            compound == sentiment_result.compound
            weighted_score == sentiment_result.weighted_score
        IN  /\ weighted_score = compound * multiplier
            /\ score <= 0 => weighted_score = compound
            /\ (weighted_score > 0) <=> (compound > 0)
            /\ (weighted_score < 0) <=> (compound < 0)
            /\ Abs(weighted_score) >= Abs(compound)

\* a comment voted down to -3 kept its negative compound as weighted_score
C12_Witness ==
    /\ pc = "returned"
    /\ "score" \in DOMAIN comment_data
    /\ comment_data.score = -3
    /\ sentiment_result.compound < 0
    /\ sentiment_result.weighted_score = sentiment_result.compound

\* the text holds a term of the positive list, of the negative list
HasPositiveTerm ==
    \E k \in 1..Len(PositiveWords) : Contains(Lower(CommentBody), PositiveWords[k])
HasNegativeTerm ==
    \E k \in 1..Len(NegativeWords) : Contains(Lower(CommentBody), NegativeWords[k])

\* C13: without VADER the sentiment of a text is positive when it holds a
\* term of the positive list, otherwise negative when it holds a term of the
\* negative list, otherwise neutral, in analyze_comment_sentiment and in
\* analyze_sentiment alike; a text with terms of both lists is positive.
C13_FallbackPositiveFirst ==
    ~VADER_AVAILABLE =>
        /\ pc = "returned" =>
              sentiment_result.sentiment_category =
                  IF HasPositiveTerm THEN "positive"
                  ELSE IF HasNegativeTerm THEN "negative"
                  ELSE "neutral"
        /\ pc = "returned_legacy" =>
              legacy_sentiment =
                  IF HasPositiveTerm THEN 1
                  ELSE IF HasNegativeTerm THEN -1
                  ELSE 0

\* a text with terms of both lists was classified without VADER
C13_Witness ==
    /\ ~VADER_AVAILABLE
    /\ pc = "returned"
    /\ HasPositiveTerm
    /\ HasNegativeTerm
    /\ sentiment_result.sentiment_category = "positive"

\* C14: every result made without VADER has confidence 0.5 and the marker
\* fallback_analysis set, and no result made with VADER has the marker.
C14_FallbackConfidence ==
    pc = "returned" =>
        /\ ~VADER_AVAILABLE =>
              /\ sentiment_result.confidence = 50
              /\ Get(sentiment_result, "fallback_analysis", FALSE)
        /\ VADER_AVAILABLE => "fallback_analysis" \notin DOMAIN sentiment_result

(***************************************************************************)
(* Post-level fold  (misc_py_root/reddit_api_connector.py)                 *)
(***************************************************************************)

\* the comparison of the post-level band made strict: a plausible slip
OverallSentimentStrict(avg) ==
    IF avg.num > 5 * avg.den THEN "positive"
    ELSE IF avg.num < (-5) * avg.den THEN "negative"
    ELSE "neutral"

\* if weighted_avg_compound >= 0.05 ... elif <= -0.05 ... else
OverallSentiment(avg) ==
    IF RatGeq(avg, 5) THEN "positive"
    ELSE IF RatLeq(avg, -5) THEN "negative"
    ELSE "neutral"

analyze_post_only_sentiment(post_data, vader) ==
    LET post_text == Strip(Get(post_data, "title", <<>>) \o <<" ">>
                           \o Get(post_data, "body", <<>>))
    IN  IF post_text = <<>>
        THEN [overall_sentiment |-> "neutral",
              sentiment_distribution |-> [positive |-> 0, negative |-> 0, neutral |-> 1],
              weighted_average_compound |-> RatZero,
              sentiment_confidence |-> RatZero,
              top_sentiment_comments |-> <<>>,
              total_comments_analyzed |-> 0,
              post_sentiment_analysis |->
                  [compound |-> 0, sentiment_category |-> "neutral", confidence |-> 0]]
        ELSE LET post_sentiment == analyze_comment_sentiment(
                     [body |-> post_text, score |-> Get(post_data, "score", 0),
                      vader_compound |-> Get(post_data, "vader_compound", 0)], vader)
                 compound == post_sentiment.compound
                 overall_sentiment == SentimentCategory(compound)
             IN  [overall_sentiment |-> overall_sentiment,
                  sentiment_distribution |->
                      [positive |-> IF overall_sentiment = "positive" THEN 1 ELSE 0,
                       negative |-> IF overall_sentiment = "negative" THEN 1 ELSE 0,
                       neutral  |-> IF overall_sentiment = "neutral" THEN 1 ELSE 0],
                  weighted_average_compound |-> Rat(compound, 1),
                  sentiment_confidence |-> Rat(Abs(compound), 1),
                  top_sentiment_comments |-> <<>>,
                  total_comments_analyzed |-> 0,
                  post_sentiment_analysis |-> post_sentiment]

\* the loop of aggregate_post_sentiment: a comment without sentiment_analysis
\* is analysed and the result is stored in the comment itself
AnalyzedComments(comments, vader) ==
    [i \in 1..Len(comments) |->
        IF "sentiment_analysis" \in DOMAIN comments[i]
        THEN comments[i]
        ELSE [k \in DOMAIN comments[i] \cup {"sentiment_analysis"} |->
                 IF k = "sentiment_analysis"
                 THEN analyze_comment_sentiment(comments[i], vader)
                 ELSE comments[i][k]]]

\* the verdict taken from the largest bucket of the distribution, positive
\* before negative before neutral: a plausible slip of the code
PostVerdictByMajority(sentiment_distribution, weighted_avg_compound) ==
    LET most == Max(sentiment_distribution.positive,
                    Max(sentiment_distribution.negative,
                        sentiment_distribution.neutral))
    IN  IF sentiment_distribution.positive = most THEN "positive"
        ELSE IF sentiment_distribution.negative = most THEN "negative"
        ELSE "neutral"

\* "Determine overall sentiment": the distribution is at hand, the verdict
\* is taken from the weighted average alone
PostVerdict(sentiment_distribution, weighted_avg_compound) ==
    OverallSentiment(weighted_avg_compound)

\* the comments ranked by weighted_score itself: a plausible slip of the code
ImpactKeySigned(x) == x.weighted_score

\* key=lambda x: abs(x['weighted_score'])
ImpactKey(x) == Abs(x.weighted_score)

\* returns the summary, and the comment list as the call leaves it
aggregate_post_sentiment(post_data, comments, vader) ==
    IF comments = <<>>
    THEN [summary |->
            [overall_sentiment |-> "neutral",
             sentiment_distribution |-> [positive |-> 0, negative |-> 0, neutral |-> 1],
             weighted_average_compound |-> RatZero,
             sentiment_confidence |-> RatZero,
             top_sentiment_comments |-> <<>>,
             total_comments_analyzed |-> 0],
          comments |-> comments]
    ELSE LET analyzed == AnalyzedComments(comments, vader)
             comment_sentiments ==
                 [i \in 1..Len(analyzed) |-> analyzed[i].sentiment_analysis]
             Count(c) == Len(SelectSeq(comment_sentiments,
                                  LAMBDA x : x.sentiment_category = c))
             total_weight ==
                 SumSeq([i \in 1..Len(comment_sentiments) |->
                            comment_sentiments[i].weighted_score])
             total_comments == Len(comment_sentiments)
             weighted_avg_compound ==
                 IF total_comments > 0 THEN Rat(total_weight, total_comments)
                 ELSE RatZero
             ranked == SortDesc([i \in 1..Len(comment_sentiments) |->
                          [key |-> ImpactKey(comment_sentiments[i]),
                           val |-> comment_sentiments[i]]])
             top_comments == Take([i \in 1..Len(ranked) |-> ranked[i].val], 3)
             sentiment_distribution ==
                 [positive |-> Count("positive"),
                  negative |-> Count("negative"),
                  neutral  |-> Count("neutral")]
         IN  [summary |->
                [overall_sentiment |->
                     PostVerdict(sentiment_distribution, weighted_avg_compound),
                 sentiment_distribution |-> sentiment_distribution,
                 weighted_average_compound |-> weighted_avg_compound,
                 sentiment_confidence |->
                     Rat(Abs(weighted_avg_compound.num), weighted_avg_compound.den),
                 top_sentiment_comments |-> top_comments,
                 total_comments_analyzed |-> Len(comment_sentiments)],
              comments |-> analyzed]

\* record r with more fields
Extend(r, more) ==
    [k \in DOMAIN r \cup DOMAIN more |-> IF k \in DOMAIN more THEN more[k] ELSE r[k]]

\* if c.get('kind') == 't1' and cdata.get('body') and cdata.get('author')
IsFetchedComment(c) ==
    /\ Get(c, "kind", "") = "t1"
    /\ Get(Get(c, "data", None), "body", <<>>) # <<>>
    /\ Get(Get(c, "data", None), "author", "") # ""

\* 5 in `total_comments >= 5`
SignificanceThreshold == 5

\* 30 in `comment_list[:30]`
TopComments == 30

\* the failure result without its own scope: a plausible slip of the code
FailedFetchUnlabelled(post, vader) ==
    [comment_list |-> <<>>,
     post_sentiment |->
         Extend(analyze_post_only_sentiment(post, vader),
                [analysis_scope |-> "unknown",
                 total_comments_available |-> 0,
                 comments_analyzed |-> 0,
                 is_statistically_significant |-> FALSE]),
     is_significant |-> FALSE]

\* the result when the fetch failed or the answer was not a listing pair
FailedFetch(post, vader) ==
    [comment_list |-> <<>>,
     post_sentiment |->
         Extend(analyze_post_only_sentiment(post, vader),
                [analysis_scope |-> "failed_fetch",
                 total_comments_available |-> 0,
                 comments_analyzed |-> 0,
                 is_statistically_significant |-> FALSE]),
     is_significant |-> FALSE]

\* the few comments aggregated all the same: a plausible slip of the code
PostOnlyResultFromComments(comment_list, post, vader) ==
    [comment_list |-> comment_list,
     post_sentiment |->
         Extend(aggregate_post_sentiment(post, comment_list, vader).summary,
                [analysis_scope |-> "post_only",
                 total_comments_available |-> Len(comment_list),
                 comments_analyzed |-> 0,
                 is_statistically_significant |-> FALSE]),
     is_significant |-> FALSE]

\* the else branch of `if is_significant`: only the post itself is analysed
PostOnlyResult(comment_list, post, vader) ==
    [comment_list |-> comment_list,
     post_sentiment |->
         Extend(analyze_post_only_sentiment(post, vader),
                [analysis_scope |-> "post_only",
                 total_comments_available |-> Len(comment_list),
                 comments_analyzed |-> 0,
                 is_statistically_significant |-> FALSE]),
     is_significant |-> FALSE]

fetch_post_comments(resp, post, vader, min_sample) ==
    IF resp.kind # "list" \/ Len(resp.data) <= 1
    THEN FailedFetch(post, vader)
    ELSE LET comments == resp.data[2]
             kept == SelectSeq(comments, IsFetchedComment)
             unsorted ==
                 [i \in 1..Len(kept) |->
                     [author |-> kept[i].data.author,
                      body |-> Strip(kept[i].data.body),
                      score |-> Get(kept[i].data, "score", 0),
                      id |-> Get(kept[i].data, "id", ""),
                      vader_compound |-> Get(kept[i].data, "vader_compound", 0)]]
             sorted == SortDesc([i \in 1..Len(unsorted) |->
                          [key |-> unsorted[i].score, val |-> unsorted[i]]])
             comment_list == [i \in 1..Len(sorted) |-> sorted[i].val]
             top_comments == Take(comment_list, TopComments)
             total_comments == Len(comment_list)
             is_significant == total_comments >= SignificanceThreshold
         IN  IF is_significant
             THEN LET scored ==
                          [i \in 1..Len(top_comments) |->
                              Extend(top_comments[i],
                                     [sentiment_analysis |->
                                        analyze_comment_sentiment(top_comments[i], vader)])]
                      agg == aggregate_post_sentiment(post, scored, vader)
                  IN  [comment_list |->
                          agg.comments \o SubSeq(comment_list, Len(top_comments) + 1,
                                                 Len(comment_list)),
                       post_sentiment |->
                          Extend(agg.summary,
                                 [analysis_scope |-> "top_30_comments",
                                  total_comments_available |-> total_comments,
                                  comments_analyzed |-> Len(top_comments),
                                  is_statistically_significant |->
                                      total_comments >= min_sample]),
                       is_significant |-> TRUE]
             ELSE PostOnlyResult(comment_list, post, vader)

(***************************************************************************)
(* Post-level fold of misc_py_root/k18_hair_mask_extractor.py              *)
(***************************************************************************)

\* the value of a call that ends in an uncaught exception
Raised(exc) == [raised |-> exc]

HasRaised(v) == "raised" \in DOMAIN v

\* the dict {}
EmptyDict == [k \in {} |-> TRUE]

K18PositiveWords ==
  << <<"g","o","o","d">>, <<"g","r","e","a","t">>, <<"a","m","a","z","i","n","g">>,
     <<"l","o","v","e">>, <<"e","f","f","e","c","t","i","v","e">>,
     <<"w","o","r","k","s">>, <<"h","e","l","p","f","u","l">>,
     <<"r","e","c","o","m","m","e","n","d">> >>

K18NegativeWords ==
  << <<"b","a","d">>, <<"t","e","r","r","i","b","l","e">>, <<"a","w","f","u","l">>,
     <<"h","a","t","e">>, <<"i","n","e","f","f","e","c","t","i","v","e">>,
     <<"d","o","e","s","n","'","t"," ","w","o","r","k">>,
     <<"w","a","s","t","e">>, <<"a","v","o","i","d">> >>

\* sum(1 for word in words if word in text)
WordCount(words, text) == Len(SelectSeq(words, LAMBDA w : Contains(text, w)))

\* With VADER the comment gets a band category; without it the generator
\* `for word in word in negative_words` names the unbound `word` and the
\* call raises NameError.
k18_analyze_comment_sentiment(cd, vader) ==
    LET text == Get(cd, "body", <<>>)
    IN  IF text = <<>> THEN [sentiment |-> "neutral", confidence |-> 0]
        ELSE IF vader
        THEN LET compound == cd.vader_compound
             IN  [compound |-> compound,
                  sentiment_category |-> SentimentCategory(compound),
                  confidence |-> Abs(compound),
                  weighted_score |-> Rat(compound * (100 + Get(cd, "score", 0)), 100),
                  method |-> "vader"]
        ELSE Raised("NameError")

k18_analyze_post_only_sentiment(post_data, vader) ==
    LET text == Strip(Get(post_data, "title", <<>>) \o <<" ">>
                      \o Get(post_data, "selftext", <<>>))
        Summary(sentiment, compound, confidence) ==
            [overall_sentiment |-> sentiment,
             sentiment_distribution |->
                 [positive |-> IF sentiment = "positive" THEN 1 ELSE 0,
                  negative |-> IF sentiment = "negative" THEN 1 ELSE 0,
                  neutral  |-> IF sentiment = "neutral" THEN 1 ELSE 0],
             weighted_average_compound |-> Rat(compound, 1),
             sentiment_confidence |-> Rat(confidence, 1),
             top_sentiment_comments |-> <<>>]
    IN  IF text = <<>> THEN Summary("neutral", 0, 0)
        ELSE IF vader
        THEN LET compound == Get(post_data, "vader_compound", 0)
             IN  Summary(SentimentCategory(compound), compound, Abs(compound))
        ELSE LET positive_count == WordCount(K18PositiveWords, Lower(text))
                 negative_count == WordCount(K18NegativeWords, Lower(text))
             IN  Summary(IF positive_count > negative_count THEN "positive"
                         ELSE IF negative_count > positive_count THEN "negative"
                         ELSE "neutral", 0, 50)

\* max_count = max(counts); positive if it has max_count, else negative if
\* it has max_count, else neutral
K18Plurality(counts) ==
    LET max_count == Max(counts.positive, Max(counts.negative, counts.neutral))
    IN  IF counts.positive = max_count THEN "positive"
        ELSE IF counts.negative = max_count THEN "negative"
        ELSE "neutral"

k18_aggregate_post_sentiment(post_data, comments, vader) ==
    IF comments = <<>> THEN k18_analyze_post_only_sentiment(post_data, vader)
    ELSE LET sentiments ==
                 [i \in 1..Len(comments) |->
                     Get(comments[i], "sentiment_analysis", EmptyDict)]
             Count(c) == Len(SelectSeq(sentiments,
                             LAMBDA x : Get(x, "sentiment_category", "neutral") = c))
             sentiment_counts ==
                 [positive |-> Count("positive"), negative |-> Count("negative"),
                  neutral |-> Count("neutral")]
             with_scores == SelectSeq(sentiments, LAMBDA x : "compound" \in DOMAIN x)
             compound_scores == [i \in 1..Len(with_scores) |-> with_scores[i].compound]
             total_comments == Len(comments)
             max_count == Max(sentiment_counts.positive,
                              Max(sentiment_counts.negative, sentiment_counts.neutral))
             ranked == SortDesc([i \in 1..Len(comments) |->
                          [key |-> Get(sentiments[i], "confidence", 0),
                           val |-> comments[i]]])
             top == Take([i \in 1..Len(ranked) |-> ranked[i].val], 3)
         IN  [overall_sentiment |-> K18Plurality(sentiment_counts),
              sentiment_distribution |-> sentiment_counts,
              weighted_average_compound |->
                  IF compound_scores # <<>>
                  THEN Rat(SumSeq(compound_scores), Len(compound_scores))
                  ELSE RatZero,
              sentiment_confidence |-> Rat(max_count, total_comments),
              top_sentiment_comments |->
                  [i \in 1..Len(top) |->
                      [id |-> Get(top[i], "id", ""),
                       sentiment |-> Get(Get(top[i], "sentiment_analysis", EmptyDict),
                                         "sentiment_category", "neutral"),
                       confidence |-> Get(Get(top[i], "sentiment_analysis", EmptyDict),
                                          "confidence", 0)]]]

\* if comment['kind'] == 't1': ... if comment_data.get('body') and
\* comment_data['body'] != '[deleted]'
K18IsFetchedComment(c) ==
    /\ c.kind = "t1"
    /\ Get(c.data, "body", <<>>) # <<>>
    /\ c.data.body # Deleted

k18_fetch_post_comments(resp, post, vader, min_sample) ==
    IF resp.kind # "list" \/ Len(resp.data) < 2
    THEN [comment_list |-> <<>>, post_sentiment |-> EmptyDict, is_significant |-> FALSE]
    ELSE LET comments_data == resp.data[2]
             kept == SelectSeq(comments_data, K18IsFetchedComment)
             comments ==
                 [i \in 1..Len(kept) |->
                     Extend(kept[i].data,
                            [sentiment_analysis |->
                                k18_analyze_comment_sentiment(kept[i].data, vader)])]
             is_significant == Len(comments) >= SignificanceThreshold
         IN  IF \E i \in 1..Len(comments) : HasRaised(comments[i].sentiment_analysis)
             THEN Raised("NameError")
             ELSE [comment_list |-> comments,
                   post_sentiment |->
                       IF is_significant
                       THEN k18_aggregate_post_sentiment(post, Take(comments, TopComments), vader)
                       ELSE k18_analyze_post_only_sentiment(post, vader),
                   is_significant |-> is_significant]

(***************************************************************************)
(* min_sample_size as the two main() compute it                            *)
(***************************************************************************)

\* Z = 1.96, p = 0.5, e = 0.05, in hundredths
ZScore == 196
Proportion == 50
MarginOfError == 5

\* (Z**2 * p * (1-p)) / (e**2) as an exact quotient
SampleSizeQuotient ==
    Rat(ZScore * ZScore * Proportion * (100 - Proportion),
        MarginOfError * MarginOfError * 100 * 100)

\* math.ceil(x)
Ceil(r) == (r.num + r.den - 1) \div r.den

\* int(x) for x >= 0
Trunc(r) == r.num \div r.den

\* reddit_api_connector.main: math.ceil(...)
ConnectorMinSampleSize == Ceil(SampleSizeQuotient)

\* k18_hair_mask_extractor.main: int(...)
K18MinSampleSize == Trunc(SampleSizeQuotient)

(***************************************************************************)
(* Specification SpecPost: main computes min_sample_size and processes one *)
(* post with fetch_post_comments                                           *)
(***************************************************************************)

\* longest comment listing the server returns
MaxChildren == 6

\* children of the comment listing; a thread is a subsequence of this list
MasterThread ==
  << [kind |-> "t1", data |-> [id |-> "c1", author |-> "u1", score |-> 1,
        body |-> <<"f","i","n","e">>, vader_compound |-> 10]],
     [kind |-> "t1", data |-> [id |-> "c2", author |-> "u2", score |-> 10,
        body |-> <<"G","r","e","a","t"," ","s","t","u","f","f">>,
        vader_compound |-> 80]],
     [kind |-> "t1", data |-> [id |-> "c3", author |-> "[deleted]", score |-> 1,
        body |-> Deleted, vader_compound |-> 0]],
     [kind |-> "t1", data |-> [id |-> "c4", author |-> "u4", score |-> 1,
        body |-> <<"W","O","R","S","T"," ","e","v","e","r">>,
        vader_compound |-> -90]],
     [kind |-> "t1", data |-> [id |-> "c5", author |-> "u5", score |-> 5,
        body |-> <<"l","o","v","e"," ","i","t">>, vader_compound |-> 60]],
     [kind |-> "t1", data |-> [id |-> "c6", author |-> "u6", score |-> 1,
        body |-> <<"m","e","h"," ","o","k">>, vader_compound |-> 5]],
     [kind |-> "t1", data |-> [id |-> "c7", author |-> "u7", score |-> 0,
        body |-> Removed, vader_compound |-> 0]],
     [kind |-> "more", data |-> [id |-> "c8"]],
     [kind |-> "t1", data |-> [id |-> "c9", author |-> "u9", score |-> -2,
        body |-> <<" ","h","a","t","e"," ","i","t"," ">>, vader_compound |-> -40]],
     [kind |-> "t1", data |-> [id |-> "c10", score |-> 20,
        body |-> <<"o","k">>, vader_compound |-> 4]],
     [kind |-> "t1", data |-> [id |-> "c11", author |-> "u11", score |-> 1,
        body |-> <<"s","o"," ","b","a","d">>, vader_compound |-> -30]] >>

\* the elements of MasterThread at the positions in S, in their order
SubThread(S) ==
    [j \in 1..Cardinality(S) |->
        MasterThread[CHOOSE x \in S : Cardinality({y \in S : y <= x}) = j]]

Threads ==
    { SubThread(S) : S \in { T \in SUBSET (1..Len(MasterThread)) :
                                Cardinality(T) <= MaxChildren } }

\* length of the longest comment listing, longer than the 30 comments that
\* are analysed
LongThreadLen == 32

LongThreadIds ==
    <<"L1", "L2", "L3", "L4", "L5", "L6", "L7", "L8", "L9", "L10", "L11", "L12", "L13", "L14", "L15", "L16", "L17", "L18", "L19", "L20", "L21", "L22", "L23", "L24", "L25", "L26", "L27", "L28", "L29", "L30", "L31", "L32", "L33", "L34", "L35", "L36", "L37", "L38", "L39", "L40">>

LongThreadBodies ==
    << <<"l","o","v","e"," ","i","t">>, <<"s","o"," ","b","a","d">>,
       <<"m","e","h"," ","o","k">> >>

\* a listing of LongThreadLen comments whose scores 1, 2, 3, 0, 1, 2, 3, 0, ...
\* put the cut of the 30 best between comments of equal score
LongThread ==
    [i \in 1..LongThreadLen |->
        [kind |-> "t1",
         data |-> [id |-> LongThreadIds[i], author |-> "u1", score |-> i % 4,
                   body |-> LongThreadBodies[(i % 3) + 1],
                   vader_compound |-> ((i * 37) % 181) - 90]]]

\* answers of the server: a failed request, a JSON object, a list too short
\* to hold a comment listing, and the pair <<post listing, comment children>>
Responses ==
    { [kind |-> "error"], [kind |-> "dict"], [kind |-> "list", data |-> << <<>> >>] }
    \cup { [kind |-> "list", data |-> << <<>>, t >>] : t \in Threads }
    \cup { [kind |-> "list", data |-> << <<>>, SubSeq(LongThread, 1, k) >>] :
             k \in {LongThreadLen - 2, LongThreadLen} }

PostPool ==
    { [id |-> "p1", score |-> 12, vader_compound |-> 64,
       title |-> <<"B","e","s","t"," ","m","a","s","k"," ","e","v","e","r">>,
       body |-> <<>>, selftext |-> <<>>],
      [id |-> "p2", score |-> 0, vader_compound |-> -30,
       title |-> <<"I","s"," ","t","h","i","s"," ","t","o","x","i","c">>,
       body |-> <<"a","v","o","i","d">>, selftext |-> <<"a","v","o","i","d">>],
      [id |-> "p3", score |-> 3, vader_compound |-> 0,
       title |-> <<>>, body |-> <<>>, selftext |-> <<>>] }

\* the variables of analyze_comment_sentiment, when it is not the call
\* under analysis
IdleScore ==
    /\ comment_data = None
    /\ sentiment_result = None
    /\ legacy_sentiment = 0

InitPost ==
    /\ VADER_AVAILABLE \in BOOLEAN
    /\ program \in {"connector", "k18"}
    /\ min_sample_size = 0
    /\ response \in Responses
    /\ program = "k18" => response.kind # "dict"
    /\ post_context \in PostPool
    /\ fetch_ret = None
    /\ pc = "main"
    /\ IdleScore
    /\ IdleStats
    /\ IdleIngredient
    /\ IdleIntent
    /\ IdleUsage
    /\ IdleBenefit
    /\ IdleSearch

\* reddit_api_connector.main, up to the loop over the search results
ConnectorComputeMinSampleSize ==
    /\ pc = "main"
    /\ program = "connector"
    /\ min_sample_size' = ConnectorMinSampleSize
    /\ pc' = "fetch"
    /\ UNCHANGED <<VADER_AVAILABLE, benefitVars, searchVars, scoreVars, statsVars, ingredientVars, intentVars, usageVars, program, response,
                   post_context, fetch_ret>>

\* k18_hair_mask_extractor.main, up to the loop over the posts
K18ComputeMinSampleSize ==
    /\ pc = "main"
    /\ program = "k18"
    /\ min_sample_size' = K18MinSampleSize
    /\ pc' = "fetch"
    /\ UNCHANGED <<VADER_AVAILABLE, benefitVars, searchVars, scoreVars, statsVars, ingredientVars, intentVars, usageVars, program, response,
                   post_context, fetch_ret>>

ConnectorFetchPostComments ==
    /\ pc = "fetch"
    /\ program = "connector"
    /\ fetch_ret' = fetch_post_comments(response, post_context, VADER_AVAILABLE,
                                        min_sample_size)
    /\ pc' = "returned"
    /\ UNCHANGED <<VADER_AVAILABLE, benefitVars, searchVars, scoreVars, statsVars, ingredientVars, intentVars, usageVars, program, min_sample_size,
                   response, post_context>>

K18FetchPostComments ==
    /\ pc = "fetch"
    /\ program = "k18"
    /\ fetch_ret' = k18_fetch_post_comments(response, post_context, VADER_AVAILABLE,
                                            min_sample_size)
    /\ pc' = "returned"
    /\ UNCHANGED <<VADER_AVAILABLE, benefitVars, searchVars, scoreVars, statsVars, ingredientVars, intentVars, usageVars, program, min_sample_size,
                   response, post_context>>

NextPost ==
    \/ ConnectorComputeMinSampleSize
    \/ K18ComputeMinSampleSize
    \/ ConnectorFetchPostComments
    \/ K18FetchPostComments

SpecPost == InitPost /\ [][NextPost]_vars

IsTombstone(text) == text \in {Deleted, Removed}

\* the comments of the returned list that took part in the aggregation
AnalysedComments(ret) ==
    SelectSeq(ret.comment_list, LAMBDA c : "sentiment_analysis" \in DOMAIN c)

\* C2: in a post summarised by fetch_post_comments, the buckets of
\* sentiment_distribution count only comments that are not tombstones, and
\* the weighted average divides by the number of such comments.
C2_TombstonesExcluded ==
    (pc = "returned" /\ program = "connector" /\ fetch_ret.is_significant) =>
        LET valid == Len(SelectSeq(AnalysedComments(fetch_ret),
                              LAMBDA c : ~IsTombstone(c.body)))
            dist == fetch_ret.post_sentiment.sentiment_distribution
        IN  /\ dist.positive + dist.negative + dist.neutral = valid
            /\ fetch_ret.post_sentiment.weighted_average_compound.den = valid

\* C3: a post is significant iff at least 5 of its comments are not
\* tombstones.
C3_SignificantIffFiveValid ==
    (pc = "returned" /\ ~HasRaised(fetch_ret) /\ response.kind = "list"
        /\ Len(response.data) > 1) =>
        (fetch_ret.is_significant <=>
            Len(SelectSeq(fetch_ret.comment_list, LAMBDA c : ~IsTombstone(c.body))) >= 5)

\* C4: wherever main computes min_sample_size and passes it on, it is 385.
C4_MinSampleSize385 ==
    pc \in {"fetch", "returned"} => min_sample_size = 385

\* the post of scenario A has been summarised: five comments, scored by
\* VADER [0.8, 0.6, -0.9, 0.1, 0.05], with upvotes [10, 5, 1, 1, 1]
ScenarioA ==
    /\ pc = "returned"
    /\ program = "connector"
    /\ fetch_ret.is_significant
    /\ Len(fetch_ret.comment_list) = 5
    /\ \A i \in 1..5 : "fallback_analysis" \notin
                          DOMAIN fetch_ret.comment_list[i].sentiment_analysis
    /\ { <<fetch_ret.comment_list[i].sentiment_analysis.compound,
           fetch_ret.comment_list[i].score>> : i \in 1..5 }
         = { <<80, 10>>, <<60, 5>>, <<-90, 1>>, <<10, 1>>, <<5, 1>> }

\* mean of compound * max(upvotes, 1) over the five comments of scenario A
ScenarioAMean == Rat(80 * 10 + 60 * 5 + (-90) * 1 + 10 * 1 + 5 * 1, 5)

\* C7 as claimed: scenario A yields the distribution positive 3, negative 1,
\* neutral 1, the weighted mean of compound * max(upvotes, 1), and the band
\* of that mean as overall_sentiment.
C7_ScenarioA_AsClaimed ==
    ScenarioA =>
        /\ fetch_ret.post_sentiment.sentiment_distribution
             = [positive |-> 3, negative |-> 1, neutral |-> 1]
        /\ RatEq(fetch_ret.post_sentiment.weighted_average_compound, ScenarioAMean)
        /\ fetch_ret.post_sentiment.overall_sentiment = SentimentCategory(205)

\* C7 (amended): scenario A yields the distribution positive 4, negative 1,
\* neutral 0 (0.05 lies on the positive bound), the weighted mean 2.05 of
\* compound * max(upvotes, 1), and overall_sentiment positive, the band of
\* that mean.
C7_ScenarioA ==
    ScenarioA =>
        /\ fetch_ret.post_sentiment.sentiment_distribution
             = [positive |-> 4, negative |-> 1, neutral |-> 0]
        /\ RatEq(fetch_ret.post_sentiment.weighted_average_compound, ScenarioAMean)
        /\ RatEq(fetch_ret.post_sentiment.weighted_average_compound, Rat(205, 1))
        /\ fetch_ret.post_sentiment.overall_sentiment = "positive"

C7_Witness == ScenarioA

\* C15: the overall_sentiment of a post aggregated over its comments is
\* the band of the mean of the comments' weighted_score: positive from 0.05
\* up, negative from -0.05 down, neutral between, whatever the counts of
\* the comment categories.
C15_BandOnWeightedMean ==
    (pc = "returned" /\ program = "connector" /\ fetch_ret.is_significant) =>
        LET analysed == AnalysedComments(fetch_ret)
            n == Len(analysed)
            total == SumSeq([i \in 1..n |->
                               analysed[i].sentiment_analysis.weighted_score])
            summary == fetch_ret.post_sentiment
        IN  /\ n > 0
            /\ RatEq(summary.weighted_average_compound, Rat(total, n))
            /\ summary.overall_sentiment =
                  IF total >= 5 * n THEN "positive"
                  ELSE IF total <= (-5) * n THEN "negative"
                  ELSE "neutral"

\* a post with more negative comments than all others together came out
\* positive
C15_Witness ==
    /\ pc = "returned"
    /\ program = "connector"
    /\ fetch_ret.is_significant
    /\ fetch_ret.post_sentiment.sentiment_distribution.negative >
         fetch_ret.post_sentiment.sentiment_distribution.positive
         + fetch_ret.post_sentiment.sentiment_distribution.neutral
    /\ fetch_ret.post_sentiment.overall_sentiment = "positive"

(***************************************************************************)
(* ingredient_stats (misc_py_root/reddit_ingredient_stats.py) and          *)
(* batch_ingredient_stats (misc_py_root/batch_ingredient_stats.py)         *)
(*                                                                         *)
(* A standard deviation is kept as the quotient under the root:            *)
(* [sq |-> r] stands for sqrt(r).  avg_upvotes and comment_volume are left *)
(* out of the statistics.                                                  *)
(***************************************************************************)

\* reddit_ingredient_stats.analyze_sentiment, in hundredths
stats_analyze_sentiment(item, ready) ==
    IF ready THEN item.vader_compound
    ELSE LET text == Lower(item.text)
         IN  IF AnyWordIn(PositiveWords, text) THEN 100
             ELSE IF AnyWordIn(NegativeWords, text) THEN -100
             ELSE 0

\* statistics.mean
Mean(values) == Rat(SumSeq(values), Len(values))

\* statistics.stdev: the root of the unbiased sample variance; it raises
\* StatisticsError when given fewer than two values
Stdev(values) ==
    LET n == Len(values)
        total == SumSeq(values)
        squares == SumSeq([i \in 1..n |->
                      (n * values[i] - total) * (n * values[i] - total)])
    IN  IF n < 2 THEN Raised("StatisticsError")
        ELSE IF squares = 0 THEN [sq |-> RatZero]
        ELSE [sq |-> Rat(squares, n * n * (n - 1))]

\* stdev called whatever the number of values: a plausible slip of the code
StdSentimentUnguarded(all_sentiments) == Stdev(all_sentiments)

\* statistics.stdev(all_sentiments) if len(all_sentiments) > 1 else 0
StdSentiment(all_sentiments) ==
    IF Len(all_sentiments) > 1 THEN Stdev(all_sentiments) ELSE [sq |-> RatZero]

\* avg + sign * 1.96 * std / sqrt(n); an offset of zero leaves avg
Offset(avg, sign, std, n) ==
    IF std.sq.num = 0 THEN avg
    ELSE [mean |-> avg, sign |-> sign, z |-> ZScore,
          half_sq |-> Rat(std.sq.num, std.sq.den * n)]

\* if n > 1: ci = [avg - ci95, avg + ci95] else: ci = [avg, avg]
ConfidenceInterval(avg, std, n) ==
    IF n > 1 THEN <<Offset(avg, -1, std, n), Offset(avg, 1, std, n)>>
    ELSE <<avg, avg>>

\* the sentiments collected for one ingredient: one per post found, then one
\* per comment with a body
AllSentiments(found, ready) ==
    LET with_body == SelectSeq(found.comments, LAMBDA c : c.text # <<>>)
    IN  [i \in 1..Len(found.posts) |-> stats_analyze_sentiment(found.posts[i], ready)]
        \o [i \in 1..Len(with_body) |-> stats_analyze_sentiment(with_body[i], ready)]

\* the statistics of an ingredient with at least one post
ComputedStats(ingredient, found, ready) ==
    LET all_sentiments == AllSentiments(found, ready)
        avg_sentiment == IF all_sentiments # <<>> THEN Mean(all_sentiments) ELSE RatZero
        std_sentiment == StdSentiment(all_sentiments)
        n == Len(all_sentiments)
    IN  IF HasRaised(std_sentiment) THEN std_sentiment
        ELSE [ingredient |-> ingredient,
              post_count |-> Len(found.posts),
              avg_sentiment |-> avg_sentiment,
              std_sentiment |-> std_sentiment,
              sentiment_95ci |-> ConfidenceInterval(avg_sentiment, std_sentiment, n),
              positive |-> avg_sentiment.num > 0,
              negative |-> avg_sentiment.num < 0,
              sentiment_method |-> IF ready THEN "vader" ELSE "rule-based"]

\* the statistics batch_ingredient_stats writes for an ingredient without posts
ZeroStats(ingredient, ready) ==
    [ingredient |-> ingredient,
     post_count |-> 0,
     avg_sentiment |-> RatZero,
     std_sentiment |-> [sq |-> RatZero],
     sentiment_95ci |-> <<RatZero, RatZero>>,
     positive |-> FALSE,
     negative |-> FALSE,
     sentiment_method |-> IF ready THEN "vader" ELSE "rule-based"]

(***************************************************************************)
(* Specification SpecStats: ingredient_stats on one ingredient, or         *)
(* batch_ingredient_stats on a list of ingredients                         *)
(***************************************************************************)

\* longest ingredient list given to batch_ingredient_stats
MaxIngredients == 2

\* most posts a search returns
MaxStatPosts == 2

\* texts of posts and comments, with the compound VADER gives them
StatTexts ==
    { [text |-> <<"G","r","e","a","t"," ","s","t","u","f","f">>, vader_compound |-> 50],
      [text |-> <<"W","O","R","S","T"," ","e","v","e","r">>, vader_compound |-> -100] }

\* the comments fetched for the posts: none, or one with a body and one
\* without
CommentThreads ==
    { <<>>,
      << [text |-> <<"m","e","h"," ","o","k">>, vader_compound |-> 0],
         [text |-> <<>>, vader_compound |-> 0] >> }

SeqsUpTo(S, n) == UNION { [1..k -> S] : k \in 0..n }

\* a search that fails, or the posts found and the comments of their
\* threads; without posts there is no thread
SearchOutcomes ==
    { [kind |-> "error"], [kind |-> "ok", posts |-> <<>>, comments |-> <<>>] }
    \cup { [kind |-> "ok", posts |-> ps, comments |-> cs] :
             ps \in SeqsUpTo(StatTexts, MaxStatPosts) \ {<<>>},
             cs \in CommentThreads }

\* the search of an ingredient that has not been made yet
Pending == [kind |-> "pending"]

InitStats ==
    /\ program \in {"ingredient_stats", "batch_ingredient_stats"}
    /\ vader_ready \in BOOLEAN
    /\ \E k \in 1..MaxIngredients :
          /\ program = "ingredient_stats" => k = 1
          /\ search_results = [i \in 1..k |-> Pending]
    /\ idx = 1
    /\ all_stats = <<>>
    /\ out_file = None
    /\ pc = "call"
    /\ VADER_AVAILABLE = FALSE
    /\ min_sample_size = 0
    /\ response = None
    /\ post_context = None
    /\ fetch_ret = None
    /\ IdleScore
    /\ IdleIngredient
    /\ IdleIntent
    /\ IdleUsage
    /\ IdleBenefit
    /\ IdleSearch

\* ingredient_stats(ingredient): a failed search raises; without posts it
\* returns before any statistics; otherwise it writes the statistics file
IngredientStats ==
    /\ pc = "call"
    /\ program = "ingredient_stats"
    /\ \E found \in SearchOutcomes :
          LET stats == ComputedStats(1, found, vader_ready)
          IN  /\ search_results' = <<found>>
              /\ IF found.kind = "error" \/ (found.posts # <<>> /\ HasRaised(stats))
                 THEN pc' = "raised" /\ UNCHANGED <<all_stats, out_file>>
                 ELSE IF found.posts = <<>>
                 THEN pc' = "returned" /\ UNCHANGED <<all_stats, out_file>>
                 ELSE /\ pc' = "returned"
                      /\ all_stats' = <<stats>>
                      /\ out_file' = stats
    /\ UNCHANGED <<VADER_AVAILABLE, benefitVars, searchVars, scoreVars, postVars, ingredientVars, intentVars,
                   usageVars, vader_ready, idx>>

\* the loop body without its try: a plausible slip of the code
BatchProcessIngredientUncaught ==
    /\ pc = "call"
    /\ program = "batch_ingredient_stats"
    /\ idx <= Len(search_results)
    /\ \E found \in SearchOutcomes :
          LET stats == IF found.posts = <<>> THEN ZeroStats(idx, vader_ready)
                       ELSE ComputedStats(idx, found, vader_ready)
          IN  /\ search_results' = [search_results EXCEPT ![idx] = found]
              /\ IF found.kind = "error"
                 THEN pc' = "raised" /\ UNCHANGED <<all_stats, idx>>
                 ELSE IF HasRaised(stats)
                 THEN pc' = "raised" /\ UNCHANGED <<all_stats, idx>>
                 ELSE all_stats' = Append(all_stats, stats) /\ idx' = idx + 1
                      /\ UNCHANGED pc
    /\ UNCHANGED <<VADER_AVAILABLE, benefitVars, searchVars, scoreVars, postVars, ingredientVars, intentVars,
                   usageVars, vader_ready, out_file>>

\* one iteration of the loop of batch_ingredient_stats; an exception of the
\* body is caught and the ingredient is skipped
BatchProcessIngredient ==
    /\ pc = "call"
    /\ program = "batch_ingredient_stats"
    /\ idx <= Len(search_results)
    /\ \E found \in SearchOutcomes :
          LET stats == IF found.posts = <<>> THEN ZeroStats(idx, vader_ready)
                       ELSE ComputedStats(idx, found, vader_ready)
          IN  /\ search_results' = [search_results EXCEPT ![idx] = found]
              /\ IF found.kind = "error" THEN UNCHANGED all_stats
                 ELSE IF HasRaised(stats) THEN UNCHANGED all_stats
                 ELSE all_stats' = Append(all_stats, stats)
    /\ idx' = idx + 1
    /\ UNCHANGED <<VADER_AVAILABLE, benefitVars, searchVars, scoreVars, postVars, ingredientVars, intentVars,
                   usageVars, vader_ready, out_file, pc>>

\* after the loop: json.dump(all_stats, f)
BatchWriteOutput ==
    /\ pc = "call"
    /\ program = "batch_ingredient_stats"
    /\ idx > Len(search_results)
    /\ out_file' = all_stats
    /\ pc' = "returned"
    /\ UNCHANGED <<VADER_AVAILABLE, benefitVars, searchVars, scoreVars, postVars, ingredientVars, intentVars, usageVars, vader_ready, search_results,
                   idx, all_stats>>

NextStats ==
    \/ IngredientStats
    \/ BatchProcessIngredient
    \/ BatchWriteOutput

SpecStats == InitStats /\ [][NextStats]_vars

\* number of sentiment values behind the statistics of ingredient i
SampleSize(i) ==
    IF search_results[i].kind # "ok" THEN 0
    ELSE Len(search_results[i].posts)
         + Len(SelectSeq(search_results[i].comments, LAMBDA c : c.text # <<>>))

\* C5: no run ends in the exception of a standard deviation of fewer than
\* two values, and every reported interval over n <= 1 values is
\* [mean, mean], which is [0, 0] for n = 0.
C5_DegenerateInterval ==
    /\ (program = "ingredient_stats" /\ pc = "raised") => search_results[1].kind = "error"
    /\ \A k \in 1..Len(all_stats) :
          LET st == all_stats[k]
              n == SampleSize(st.ingredient)
          IN  n <= 1 =>
                /\ st.sentiment_95ci = <<st.avg_sentiment, st.avg_sentiment>>
                /\ st.sentiment_95ci[1].den > 0
                /\ n = 1 => RatEq(st.avg_sentiment,
                                  Rat(AllSentiments(search_results[st.ingredient],
                                                    vader_ready)[1], 1))
                /\ n = 0 => st.sentiment_95ci = <<RatZero, RatZero>>
    /\ (program = "batch_ingredient_stats" /\ pc = "returned") =>
          \A i \in 1..Len(search_results) :
              search_results[i].kind = "ok" =>
                  \E k \in 1..Len(all_stats) : all_stats[k].ingredient = i

\* statistics over a single value and statistics over none were reported
C5_Witness ==
    /\ pc = "returned"
    /\ \E k \in 1..Len(all_stats) :
          /\ SampleSize(all_stats[k].ingredient) = 1
          /\ all_stats[k].avg_sentiment.num # 0
    /\ \E k \in 1..Len(all_stats) : SampleSize(all_stats[k].ingredient) = 0

\* the answer of the server holds no comment listing
FetchFailed == response.kind # "list" \/ Len(response.data) <= 1

\* the comments of the answer that fetch_post_comments keeps, in the order
\* of the answer
FetchedComments == SelectSeq(response.data[2], IsFetchedComment)

\* position in the answer of the kept comment with this id
FetchPosition(id) ==
    CHOOSE i \in 1..Len(FetchedComments) : FetchedComments[i].data.id = id

\* number of comments that are analysed when n were kept
AnalysedCount(n) == IF n < 30 THEN n ELSE 30

\* C23: for a significant post the returned comment list is the list of the
\* kept comments ordered by score descending, comments of equal score in
\* their fetch order; exactly its first min(30, n) comments carry a
\* sentiment_analysis, and the summary counts and averages those comments
\* and no other.
C23_TopThirtyStable ==
    (program = "connector" /\ pc = "returned" /\ fetch_ret.is_significant) =>
        LET cl == fetch_ret.comment_list
            n == Len(cl)
            m == AnalysedCount(n)
            ps == fetch_ret.post_sentiment
            d == ps.sentiment_distribution
        IN  /\ n = Len(FetchedComments)
            /\ { cl[i].id : i \in 1..n }
                  = { FetchedComments[i].data.id : i \in 1..n }
            /\ \A i, j \in 1..n :
                  i < j => \/ cl[i].score > cl[j].score
                           \/ /\ cl[i].score = cl[j].score
                              /\ FetchPosition(cl[i].id) < FetchPosition(cl[j].id)
            /\ \A i \in 1..n : ("sentiment_analysis" \in DOMAIN cl[i]) <=> (i <= m)
            /\ ps.comments_analyzed = m
            /\ ps.total_comments_analyzed = m
            /\ d.positive + d.negative + d.neutral = m
            /\ RatEq(ps.weighted_average_compound,
                     Rat(SumSeq([i \in 1..m |-> cl[i].sentiment_analysis.weighted_score]),
                         m))

\* a post with 32 comments: the 31st of the ranking, which VADER finds
\* polar, is left out, and it has the score of the 30th
C23_Witness ==
    /\ program = "connector"
    /\ pc = "returned"
    /\ fetch_ret.is_significant
    /\ VADER_AVAILABLE
    /\ Len(fetch_ret.comment_list) = 32
    /\ "sentiment_analysis" \in DOMAIN fetch_ret.comment_list[30]
    /\ "sentiment_analysis" \notin DOMAIN fetch_ret.comment_list[31]
    /\ fetch_ret.comment_list[31].score = fetch_ret.comment_list[30].score
    /\ fetch_ret.comment_list[31].vader_compound # 0

\* title + " " + body of the post, as analyze_post_only_sentiment strips it
PostText ==
    Strip(Get(post_context, "title", <<>>) \o <<" ">> \o Get(post_context, "body", <<>>))

\* C24: for a post with fewer than 5 kept comments the summary is that of
\* the text title + " " + body alone: analysis_scope is post_only,
\* comments_analyzed is 0, the distribution has the count 1 for the category
\* of the post text and 0 for the other two, and overall_sentiment and
\* weighted_average_compound are what the post text alone gives, whatever
\* the comments are.
C24_PostOnlySummary ==
    (program = "connector" /\ pc = "returned" /\ ~FetchFailed
        /\ Len(FetchedComments) < 5) =>
        LET ps == fetch_ret.post_sentiment
            d == ps.sentiment_distribution
            alone == analyze_post_only_sentiment(post_context, VADER_AVAILABLE)
        IN  /\ ps.analysis_scope = "post_only"
            /\ ps.comments_analyzed = 0
            /\ fetch_ret.is_significant = FALSE
            /\ \A i \in 1..Len(fetch_ret.comment_list) :
                  "sentiment_analysis" \notin DOMAIN fetch_ret.comment_list[i]
            /\ ps.overall_sentiment \in {"positive", "negative", "neutral"}
            /\ \A c \in {"positive", "negative", "neutral"} :
                  d[c] = IF c = ps.overall_sentiment THEN 1 ELSE 0
            /\ ps.overall_sentiment = alone.overall_sentiment
            /\ ps.weighted_average_compound = alone.weighted_average_compound
            /\ VADER_AVAILABLE =>
                  LET compound == IF PostText \in {<<>>, Deleted, Removed} THEN 0
                                  ELSE post_context.vader_compound
                  IN  /\ RatEq(ps.weighted_average_compound, Rat(compound, 1))
                      /\ ps.overall_sentiment =
                            IF compound >= 5 THEN "positive"
                            ELSE IF compound <= -5 THEN "negative" ELSE "neutral"

\* a negative post with four comments, one of them strongly positive and
\* upvoted
C24_Witness ==
    /\ program = "connector"
    /\ pc = "returned"
    /\ ~FetchFailed
    /\ Len(fetch_ret.comment_list) = 4
    /\ \E i \in 1..4 : /\ fetch_ret.comment_list[i].vader_compound >= 50
                        /\ fetch_ret.comment_list[i].score >= 10
    /\ fetch_ret.post_sentiment.overall_sentiment = "negative"
    /\ fetch_ret.post_sentiment.analysis_scope = "post_only"

\* the sentiment_analysis of the comments of the returned list that have one
AnalysedSentiments ==
    LET analysed == SelectSeq(fetch_ret.comment_list,
                              LAMBDA c : "sentiment_analysis" \in DOMAIN c)
    IN  [i \in 1..Len(analysed) |-> analysed[i].sentiment_analysis]

\* |weighted_score|
Impact(x) == IF x.weighted_score >= 0 THEN x.weighted_score ELSE -x.weighted_score

\* C27: for a significant post top_sentiment_comments holds at most 3
\* entries (3 when at least 3 comments were analysed), each the
\* sentiment_analysis of a different analysed comment, in descending order
\* of |weighted_score|, and no analysed comment that is left out has a
\* strictly greater |weighted_score| than one that is included.
C27_TopThreeByImpact ==
    (program = "connector" /\ pc = "returned" /\ fetch_ret.is_significant) =>
        LET top == fetch_ret.post_sentiment.top_sentiment_comments
            all == AnalysedSentiments
        IN  /\ Len(top) <= 3
            /\ Len(top) = (IF Len(all) < 3 THEN Len(all) ELSE 3)
            /\ \A i, j \in 1..Len(top) : i < j => Impact(top[i]) >= Impact(top[j])
            /\ \E f \in [1..Len(top) -> 1..Len(all)] :
                  /\ \A i, j \in 1..Len(top) : i # j => f[i] # f[j]
                  /\ \A i \in 1..Len(top) : all[f[i]] = top[i]
                  /\ \A k \in 1..Len(all) :
                        (\A i \in 1..Len(top) : f[i] # k) =>
                            \A i \in 1..Len(top) : Impact(all[k]) <= Impact(top[i])

\* the comment of greatest impact is a negative one, and a comment with a
\* positive weighted_score is left out
C27_Witness ==
    /\ program = "connector"
    /\ pc = "returned"
    /\ fetch_ret.is_significant
    /\ Len(fetch_ret.post_sentiment.top_sentiment_comments) = 3
    /\ fetch_ret.post_sentiment.top_sentiment_comments[1].weighted_score < 0
    /\ \E k \in 1..Len(AnalysedSentiments) :
          /\ AnalysedSentiments[k].weighted_score > 0
          /\ \A i \in 1..3 :
                Impact(AnalysedSentiments[k])
                  < Impact(fetch_ret.post_sentiment.top_sentiment_comments[i])

\* C28: on every return of fetch_post_comments analysis_scope is post_only,
\* top_30_comments or failed_fetch, is_significant is true exactly when the
\* scope is top_30_comments, a fetch that failed has the scope failed_fetch,
\* and with that scope the comment list is empty, comments_analyzed is 0
\* and is_statistically_significant is false.
C28_ScopeAndSignificance ==
    (program = "connector" /\ pc = "returned") =>
        LET ps == fetch_ret.post_sentiment
        IN  /\ ps.analysis_scope \in {"post_only", "top_30_comments", "failed_fetch"}
            /\ fetch_ret.is_significant <=> (ps.analysis_scope = "top_30_comments")
            /\ FetchFailed => ps.analysis_scope = "failed_fetch"
            /\ ps.analysis_scope = "failed_fetch" =>
                  /\ fetch_ret.comment_list = <<>>
                  /\ ps.comments_analyzed = 0
                  /\ ps.is_statistically_significant = FALSE

\* the request failed for a post whose own text is positive
C28_Witness ==
    /\ program = "connector"
    /\ pc = "returned"
    /\ response.kind = "error"
    /\ fetch_ret.post_sentiment.analysis_scope = "failed_fetch"
    /\ fetch_ret.post_sentiment.overall_sentiment = "positive"
    /\ fetch_ret.is_significant = FALSE

(***************************************************************************)
(* Specification SpecBatch: the two places where a failure on one item is  *)
(* contained, the loop of batch_ingredient_stats and the comment fetch of  *)
(* one post; a run is a run of SpecStats or a run of SpecPost              *)
(***************************************************************************)

InitBatch == InitStats \/ InitPost

NextBatch == NextStats \/ NextPost

SpecBatch == InitBatch /\ [][NextBatch]_vars

RatAdd(r, q) == Rat(r.num * q.den + q.num * r.den, r.den * q.den)

RECURSIVE RatSum(_)
\* sum(weighted_compounds)
RatSum(seq) ==
    IF seq = <<>> THEN RatZero ELSE RatAdd(seq[1], RatSum(Tail(seq)))

\* every post taken for significant: a plausible slip of the code
IsSignificantPostAlways(post) == TRUE

\* post.get('is_significant_for_sentiment', False)
IsSignificantPost(post) == Get(post, "is_significant_for_sentiment", FALSE)

\* if positive > negative ... elif negative > positive ... else neutral
DominantSentiment(dist) ==
    IF dist.positive > dist.negative THEN "positive"
    ELSE IF dist.negative > dist.positive THEN "negative"
    ELSE "neutral"

\* every post taken for the mean, significant or not: a plausible slip
PostSentimentsOfAll(posts) ==
    LET with_sentiment == SelectSeq(posts, LAMBDA p : "post_sentiment" \in DOMAIN p)
    IN  [i \in 1..Len(with_sentiment) |-> with_sentiment[i].post_sentiment]

\* post_sentiments: the post_sentiment of each significant post that has one
PostSentiments(posts) ==
    LET with_sentiment ==
            SelectSeq(posts, LAMBDA p : IsSignificantPost(p)
                                        /\ "post_sentiment" \in DOMAIN p)
    IN  [i \in 1..Len(with_sentiment) |-> with_sentiment[i].post_sentiment]

\* number of comments of the significant posts that carry a sentiment_analysis
CommentSentimentCount(posts) ==
    LET significant_posts == SelectSeq(posts, IsSignificantPost)
    IN  SumSeq([i \in 1..Len(significant_posts) |->
                  Len(SelectSeq(Get(significant_posts[i], "comments", <<>>),
                                LAMBDA c : "sentiment_analysis" \in DOMAIN c))])

\* number of those comments whose sentiment_analysis is ingredient_specific
IngredientSpecificCount(posts) ==
    LET significant_posts == SelectSeq(posts, IsSignificantPost)
    IN  SumSeq([i \in 1..Len(significant_posts) |->
                  Len(SelectSeq(Get(significant_posts[i], "comments", <<>>),
                                LAMBDA c : /\ "sentiment_analysis" \in DOMAIN c
                                           /\ Get(c.sentiment_analysis,
                                                  "ingredient_specific", FALSE)))])

\* an empty list reported as not analysed: a plausible slip of the code
EmptyProfileUnknown ==
    [overall_sentiment |-> "unknown",
     sentiment_distribution |-> [positive |-> 0, negative |-> 0, neutral |-> 0],
     weighted_average_compound |-> RatZero,
     total_posts_analyzed |-> 0,
     total_comments_analyzed |-> 0,
     ingredient_specific_comments |-> 0,
     sentiment_confidence |-> RatZero,
     significant_posts_count |-> 0,
     insignificant_posts_count |-> 0]

\* the dict returned under `if not all_posts`
EmptyProfile ==
    [overall_sentiment |-> "neutral",
     sentiment_distribution |-> [positive |-> 0, negative |-> 0, neutral |-> 0],
     weighted_average_compound |-> RatZero,
     total_posts_analyzed |-> 0,
     total_comments_analyzed |-> 0,
     ingredient_specific_comments |-> 0,
     sentiment_confidence |-> RatZero,
     significant_posts_count |-> 0,
     insignificant_posts_count |-> 0]

\* the dict that calculate_overall_ingredient_sentiment returns
OverallProfile(posts) ==
    IF posts = <<>> THEN EmptyProfile
    ELSE LET significant_posts == SelectSeq(posts, IsSignificantPost)
             insignificant_posts == SelectSeq(posts, LAMBDA p : ~IsSignificantPost(p))
             post_sentiments == PostSentiments(posts)
             Count(c) == Len(SelectSeq(post_sentiments,
                                       LAMBDA ps : ps.overall_sentiment = c))
             sentiment_distribution ==
                 IF post_sentiments # <<>>
                 THEN [positive |-> Count("positive"), negative |-> Count("negative"),
                       neutral |-> Count("neutral")]
                 ELSE [positive |-> 0, negative |-> 0, neutral |-> 0]
             weighted_compounds ==
                 [i \in 1..Len(post_sentiments) |->
                     post_sentiments[i].weighted_average_compound]
             total == RatSum(weighted_compounds)
             avg_compound ==
                 IF post_sentiments # <<>>
                 THEN Rat(total.num, total.den * Len(weighted_compounds))
                 ELSE RatZero
         IN  [overall_sentiment |->
                 IF post_sentiments # <<>> THEN DominantSentiment(sentiment_distribution)
                 ELSE "neutral",
              sentiment_distribution |-> sentiment_distribution,
              weighted_average_compound |-> avg_compound,
              total_posts_analyzed |-> Len(post_sentiments),
              total_comments_analyzed |-> CommentSentimentCount(posts),
              ingredient_specific_comments |-> IngredientSpecificCount(posts),
              sentiment_confidence |-> Rat(Abs(avg_compound.num), avg_compound.den),
              significant_posts_count |-> Len(significant_posts),
              insignificant_posts_count |-> Len(insignificant_posts),
              analysis_notes |-> <<Len(significant_posts), Len(posts)>>]

\* the call written to keep only the significant posts in the caller's list:
\* a plausible slip of the code
calculate_overall_ingredient_sentiment_in_place(posts) ==
    [ret |-> OverallProfile(posts), all_posts |-> SelectSeq(posts, IsSignificantPost)]

\* the value returned, and the argument list as the call leaves it: the
\* function only reads all_posts
calculate_overall_ingredient_sentiment(posts) ==
    [ret |-> OverallProfile(posts), all_posts |-> posts]

\* calculate_sentiment_by_subreddit: one entry per subreddit of the list
calculate_sentiment_by_subreddit(posts) ==
    LET Subreddit(p) == Get(p, "subreddit", "unknown")
        Overall(p) == Get(Get(p, "post_sentiment", EmptyDict),
                          "overall_sentiment", "neutral")
        Compound(p) == Get(Get(p, "post_sentiment", EmptyDict),
                           "weighted_average_compound", RatZero)
    IN  [sub \in { Subreddit(posts[i]) : i \in 1..Len(posts) } |->
            LET of_sub == SelectSeq(posts, LAMBDA p : Subreddit(p) = sub)
                n == Len(of_sub)
                total == RatSum([i \in 1..n |-> Compound(of_sub[i])])
                avg_compound == Rat(total.num, total.den * n)
            IN  [posts |-> n,
                 comments |-> SumSeq([i \in 1..n |->
                                        Len(Get(of_sub[i], "comments", <<>>))]),
                 positive_posts |->
                     Len(SelectSeq(of_sub, LAMBDA p : Overall(p) = "positive")),
                 negative_posts |->
                     Len(SelectSeq(of_sub, LAMBDA p : Overall(p) = "negative")),
                 neutral_posts |->
                     Len(SelectSeq(of_sub, LAMBDA p :
                             Overall(p) \notin {"positive", "negative"})),
                 avg_compound |-> avg_compound,
                 weighted_avg_compound |-> avg_compound]]

(***************************************************************************)
(* Ingredient-level fold of misc_py_root/k18_hair_mask_extractor.py        *)
(***************************************************************************)

\* main of k18_hair_mask_extractor keeps the summary of a post under
\* post_sentiment_analysis
K18MainPost(post) ==
    [k \in (DOMAIN post \ {"post_sentiment"}) \cup {"post_sentiment_analysis"} |->
        IF k = "post_sentiment_analysis" THEN post.post_sentiment ELSE post[k]]

k18_calculate_overall_ingredient_sentiment(posts) ==
    IF posts = <<>>
    THEN [overall_sentiment |-> "neutral",
          sentiment_distribution |-> [positive |-> 0, negative |-> 0, neutral |-> 0],
          average_compound_score |-> RatZero,
          significant_posts_count |-> 0,
          insignificant_posts_count |-> 0]
    ELSE LET significant_posts ==
                 SelectSeq(posts, LAMBDA p : Get(p, "is_significant_for_sentiment", FALSE))
             insignificant_posts ==
                 SelectSeq(posts, LAMBDA p : ~Get(p, "is_significant_for_sentiment", FALSE))
             posts_for_sentiment == significant_posts
             Summary(p) == Get(p, "post_sentiment_analysis", EmptyDict)
             Count(c) ==
                 Len(SelectSeq(posts_for_sentiment,
                         LAMBDA p : Get(Summary(p), "overall_sentiment", "neutral") = c))
             sentiment_counts ==
                 [positive |-> Count("positive"), negative |-> Count("negative"),
                  neutral |-> Count("neutral")]
             scored == SelectSeq(posts_for_sentiment,
                          LAMBDA p : Get(Summary(p), "weighted_average_compound",
                                         RatZero).num # 0)
             compound_scores ==
                 [i \in 1..Len(scored) |-> Summary(scored[i]).weighted_average_compound]
             total == RatSum(compound_scores)
         IN  [overall_sentiment |->
                 IF Len(posts_for_sentiment) = 0 THEN "neutral"
                 ELSE K18Plurality(sentiment_counts),
              sentiment_distribution |-> sentiment_counts,
              average_compound_score |->
                 IF compound_scores # <<>>
                 THEN Rat(total.num, total.den * Len(compound_scores))
                 ELSE RatZero,
              significant_posts_count |-> Len(significant_posts),
              insignificant_posts_count |-> Len(insignificant_posts)]

(***************************************************************************)
(* Specification SpecIngredient: the end of main on the post list it has   *)
(* built.  The connector calls calculate_overall_ingredient_sentiment      *)
(* (here up to MaxCalls times) and then calculate_sentiment_by_subreddit;  *)
(* k18_hair_mask_extractor calls its own fold once.                        *)
(***************************************************************************)

\* longest post list
MaxPosts == 3

\* number of calls on the same list
MaxCalls == 2

\* a comment as main keeps it; the comments of a significant post carry
\* their sentiment_analysis
IngredientComment(analysed) ==
    IF analysed
    THEN [body |-> <<"f","i","n","e">>, score |-> 1,
          sentiment_analysis |-> [compound |-> 10, sentiment_category |-> "positive",
                                  confidence |-> 10, weighted_score |-> 10]]
    ELSE [body |-> <<"f","i","n","e">>, score |-> 1]

\* a post as the loop of main leaves it: a significant post has at least
\* five comments and the summary of aggregate_post_sentiment, any other post
\* the summary of analyze_post_only_sentiment
MainPost(id, subreddit, significant, wac, n_comments) ==
    [id |-> id,
     subreddit |-> subreddit,
     is_significant_for_sentiment |-> significant,
     comments |-> [i \in 1..n_comments |-> IngredientComment(significant)],
     post_sentiment |->
         [overall_sentiment |-> OverallSentiment(wac),
          weighted_average_compound |-> wac,
          analysis_scope |-> IF significant THEN "top_30_comments" ELSE "post_only"]]

IngredientPostPool ==
    { MainPost("p1", "r/a", TRUE, Rat(100, 5), 5),
      MainPost("p2", "r/a", TRUE, Rat(180, 6), 6),
      MainPost("p3", "r/b", TRUE, Rat(125, 5), 5),
      MainPost("p4", "r/b", TRUE, Rat(-150, 5), 5),
      MainPost("p5", "r/a", TRUE, Rat(20, 5), 5),
      MainPost("p6", "r/a", FALSE, Rat(64, 1), 2),
      MainPost("p7", "r/b", FALSE, Rat(-30, 1), 0),
      MainPost("p8", "r/b", FALSE, Rat(0, 1), 4) }

InitIngredient ==
    /\ all_posts \in SeqsUpTo(IngredientPostPool, MaxPosts)
    /\ profiles = <<>>
    /\ k18_profiles = <<>>
    /\ subreddit_sentiments = None
    /\ pc = "call"
    /\ VADER_AVAILABLE = TRUE
    /\ IdleScore
    /\ IdlePost
    /\ IdleStats
    /\ IdleIntent
    /\ IdleUsage
    /\ IdleBenefit
    /\ IdleSearch

CalculateOverallIngredientSentiment ==
    /\ pc = "call"
    /\ Len(profiles) < MaxCalls
    /\ LET r == calculate_overall_ingredient_sentiment(all_posts)
       IN  /\ profiles' = Append(profiles, r.ret)
           /\ all_posts' = r.all_posts
    /\ UNCHANGED <<VADER_AVAILABLE, benefitVars, searchVars, scoreVars, postVars, statsVars, intentVars,
                   usageVars, k18_profiles, subreddit_sentiments, pc>>

\* main, after the overall summary: "sentiment_by_subreddit"
CalculateSentimentBySubreddit ==
    /\ pc = "call"
    /\ Len(profiles) >= 1
    /\ subreddit_sentiments' = [ret |-> calculate_sentiment_by_subreddit(all_posts)]
    /\ pc' = "returned"
    /\ UNCHANGED <<VADER_AVAILABLE, benefitVars, searchVars, scoreVars, postVars, statsVars, intentVars,
                   usageVars, all_posts, profiles, k18_profiles>>

\* main of k18_hair_mask_extractor on the same posts, as it stores them
K18CalculateOverallIngredientSentiment ==
    /\ pc = "call"
    /\ profiles = <<>>
    /\ k18_profiles' =
          <<k18_calculate_overall_ingredient_sentiment(
                [i \in 1..Len(all_posts) |-> K18MainPost(all_posts[i])])>>
    /\ pc' = "returned"
    /\ UNCHANGED <<VADER_AVAILABLE, benefitVars, searchVars, scoreVars, postVars, statsVars, intentVars,
                   usageVars, all_posts, profiles, subreddit_sentiments>>

NextIngredient ==
    \/ CalculateOverallIngredientSentiment
    \/ CalculateSentimentBySubreddit
    \/ K18CalculateOverallIngredientSentiment

SpecIngredient == InitIngredient /\ [][NextIngredient]_vars

SignificantCompounds ==
    LET significant_posts == SelectSeq(all_posts, IsSignificantPost)
    IN  [i \in 1..Len(significant_posts) |->
            significant_posts[i].post_sentiment.weighted_average_compound]

\* three significant posts with the values 0.2, 0.3 and 0.25
ScenarioB ==
    /\ Len(profiles) >= 1
    /\ Len(SignificantCompounds) = 3
    /\ \E f \in [1..3 -> {20, 30, 25}] :
          /\ {f[1], f[2], f[3]} = {20, 30, 25}
          /\ \A i \in 1..3 : RatEq(SignificantCompounds[i], Rat(f[i], 1))

\* C8: the profile's weighted_average_compound is the sum of the
\* weighted_average_compound of the significant posts divided by their
\* number (0 when there is none); with the three values 0.2, 0.3 and 0.25
\* it is 0.25 and overall_sentiment is positive.
C8_MeanOfSignificant ==
    \A k \in 1..Len(profiles) :
        LET n == Len(SignificantCompounds)
            avg == profiles[k].weighted_average_compound
            total == RatSum(SignificantCompounds)
        IN  /\ n = 0 => avg = RatZero
            /\ n > 0 => avg.num * total.den * n = total.num * avg.den
            /\ ScenarioB => /\ RatEq(avg, Rat(25, 1))
                            /\ profiles[k].overall_sentiment = "positive"

C8_Witness ==
    /\ ScenarioB
    /\ Len(all_posts) = 3

\* the summaries that the loop of main can leave on an insignificant post
InsignificantSentiments ==
    { p.post_sentiment : p \in { q \in IngredientPostPool :
                                    ~q.is_significant_for_sentiment } }

\* the lists that agree with posts on every significant post and have, in
\* place of each insignificant post, the same post with any such summary
RECURSIVE Variants(_)
Variants(posts) ==
    IF posts = <<>> THEN {<<>>}
    ELSE LET heads == IF Head(posts).is_significant_for_sentiment
                      THEN {Head(posts)}
                      ELSE { [Head(posts) EXCEPT !.post_sentiment = s] :
                                s \in InsignificantSentiments }
         IN  { <<h>> \o t : h \in heads, t \in Variants(Tail(posts)) }

\* C16: posts that are not significant do not influence the verdict: a list
\* that differs from the one analysed only in the sentiment data of its
\* insignificant posts gets the same overall_sentiment, the same
\* sentiment_distribution and the same weighted_average_compound, and
\* insignificant_posts_count is the number of insignificant posts.
C16_InsignificantIgnored ==
    \A k \in 1..Len(profiles) :
        /\ profiles[k].insignificant_posts_count =
              Cardinality({ i \in 1..Len(all_posts) :
                              ~all_posts[i].is_significant_for_sentiment })
        /\ \A alt \in Variants(all_posts) :
              LET other == calculate_overall_ingredient_sentiment(alt).ret
              IN  /\ other.overall_sentiment = profiles[k].overall_sentiment
                  /\ other.sentiment_distribution = profiles[k].sentiment_distribution
                  /\ RatEq(other.weighted_average_compound,
                           profiles[k].weighted_average_compound)

\* a positive verdict on a list with a significant post and an insignificant
\* post whose own summary is negative
C16_Witness ==
    /\ Len(profiles) >= 1
    /\ profiles[1].overall_sentiment = "positive"
    /\ \E i, j \in 1..Len(all_posts) :
          /\ all_posts[i].is_significant_for_sentiment
          /\ ~all_posts[j].is_significant_for_sentiment
          /\ all_posts[j].post_sentiment.overall_sentiment = "negative"

\* the verdict of a profile is the category that strictly outnumbers each of
\* the other two, when there is one
FollowsPlurality(profile) ==
    LET d == profile.sentiment_distribution
    IN  /\ (d.positive > d.negative /\ d.positive > d.neutral)
              => profile.overall_sentiment = "positive"
        /\ (d.negative > d.positive /\ d.negative > d.neutral)
              => profile.overall_sentiment = "negative"
        /\ (d.neutral > d.positive /\ d.neutral > d.negative)
              => profile.overall_sentiment = "neutral"

\* C17: the ingredient's overall_sentiment is the plurality of the
\* overall_sentiment values of its significant posts: a category whose count
\* is strictly greater than each of the other two is the verdict, so a
\* neutral plurality gives neutral even when positive and negative differ.
C17_PluralityVerdict ==
    /\ \A k \in 1..Len(profiles) : FollowsPlurality(profiles[k])
    /\ \A k \in 1..Len(k18_profiles) : FollowsPlurality(k18_profiles[k])

\* the tie policy on the counts of a profile
FollowsTiePolicy(profile) ==
    LET d == profile.sentiment_distribution
    IN  /\ (d.positive = d.negative /\ d.positive > d.neutral)
              => profile.overall_sentiment = "positive"
        /\ (d.positive = d.neutral /\ d.positive > d.negative)
              => profile.overall_sentiment = "neutral"
        /\ (d.positive = d.negative /\ d.negative = d.neutral)
              => profile.overall_sentiment = "neutral"

\* C18: when positive and negative tie above neutral the verdict is
\* positive; when positive ties with neutral for the greatest count, or all
\* three counts are equal, the verdict is neutral.
C18_TiePolicy ==
    /\ \A k \in 1..Len(profiles) : FollowsTiePolicy(profiles[k])
    /\ \A k \in 1..Len(k18_profiles) : FollowsTiePolicy(k18_profiles[k])

\* the positions of the significant posts of a subreddit in the list
SignificantOf(sub) ==
    { i \in 1..Len(all_posts) :
        /\ all_posts[i].is_significant_for_sentiment
        /\ all_posts[i].subreddit = sub }

\* C19: the per-subreddit breakdown is built from the significant posts
\* only: it is the breakdown of the list without its insignificant posts,
\* and for every subreddit the positive, negative and neutral counts sum to
\* the number of significant posts of that subreddit.
C19_BreakdownOfSignificant ==
    subreddit_sentiments # None =>
        LET breakdown == subreddit_sentiments.ret
        IN  /\ breakdown = calculate_sentiment_by_subreddit(
                    SelectSeq(all_posts, LAMBDA p : p.is_significant_for_sentiment))
            /\ \A sub \in DOMAIN breakdown :
                  /\ breakdown[sub].posts = Cardinality(SignificantOf(sub))
                  /\ breakdown[sub].positive_posts + breakdown[sub].negative_posts
                        + breakdown[sub].neutral_posts = Cardinality(SignificantOf(sub))

\* the verdict of a profile is the zeroed one
ZeroedVerdict(profile) ==
    /\ profile.overall_sentiment = "neutral"
    /\ profile.sentiment_distribution = [positive |-> 0, negative |-> 0, neutral |-> 0]
    /\ RatEq(profile.weighted_average_compound, RatZero)
    /\ profile.significant_posts_count = 0

\* C20: for an empty post list calculate_overall_ingredient_sentiment returns
\* a fully zeroed profile (neutral, every count of the distribution 0,
\* weighted_average_compound 0, significant_posts_count 0 and
\* insignificant_posts_count 0), and it returns the same zeroed verdict for
\* a list that is not empty and has no significant post.
C20_ZeroedProfile ==
    \A k \in 1..Len(profiles) :
        /\ all_posts = <<>> =>
              /\ ZeroedVerdict(profiles[k])
              /\ profiles[k].insignificant_posts_count = 0
        /\ (\A i \in 1..Len(all_posts) : ~all_posts[i].is_significant_for_sentiment)
              => ZeroedVerdict(profiles[k])

C20_Witness ==
    /\ all_posts = <<>>
    /\ Len(profiles) >= 1
    /\ profiles[1].overall_sentiment = "neutral"
    /\ profiles[1].insignificant_posts_count = 0

\* C21: the ingredient profile records whether its number of significant
\* posts meets min_sample_size: it carries is_statistically_significant,
\* which is true exactly when significant_posts_count is at least
\* ConnectorMinSampleSize (385), so false whenever the count is smaller.
C21_ProfileSignificanceFlag ==
    \A k \in 1..Len(profiles) :
        /\ "is_statistically_significant" \in DOMAIN profiles[k]
        /\ profiles[k].is_statistically_significant
              <=> (profiles[k].significant_posts_count >= ConnectorMinSampleSize)

(***************************************************************************)
(* Regular expressions  (the re module, as categorize_post_intent uses it) *)
(*                                                                         *)
(* A pattern is a tree; Ends(r, t, i) is the set of positions where a      *)
(* match of r that starts at position i of t can end.  The patterns below  *)
(* have no back-reference and no look-around, so re.search finds a match   *)
(* exactly when some start position has an end position.                   *)
(***************************************************************************)

Lit(chars) == <<"lit", chars>>
Cat(rs) == <<"cat", rs>>
Alt(rs) == <<"alt", rs>>
Opt(r) == <<"opt", r>>
\* r{min,}; r* is Rep(0, r) and r+ is Rep(1, r)
Rep(min, r) == <<"rep", min, r>>
WordBoundary == <<"b">>
Digit == <<"d">>
Space == <<"s">>
AnyChar == <<"any">>

Digits == {"0","1","2","3","4","5","6","7","8","9"}

\* \w
IsWordChar(c) ==
    \/ c \in Digits
    \/ c = "_"
    \/ \E k \in 1..26 : c = LowerCase[k] \/ c = UpperCase[k]

\* \s
IsRegexSpace(c) == c \in {" ", "\t", "\n", "\r", "\f"}

\* is there a word character at position i of t
WordAt(t, i) == i >= 1 /\ i <= Len(t) /\ IsWordChar(t[i])

RECURSIVE Ends(_, _, _)
RECURSIVE EndsCat(_, _, _)
RECURSIVE Closure(_, _, _)
RECURSIVE EndsRep(_, _, _, _)

\* the ends of the matches of r that start at one of the positions of S
EndsFrom(r, t, S) == UNION { Ends(r, t, j) : j \in S }

Ends(r, t, i) ==
    CASE r[1] = "lit" ->
            LET n == Len(r[2])
            IN  IF i + n - 1 <= Len(t) /\ SubSeq(t, i, i + n - 1) = r[2]
                THEN {i + n} ELSE {}
      [] r[1] = "cat" -> EndsCat(r[2], t, {i})
      [] r[1] = "alt" -> UNION { Ends(r[2][k], t, i) : k \in 1..Len(r[2]) }
      [] r[1] = "opt" -> {i} \cup Ends(r[2], t, i)
      [] r[1] = "rep" -> EndsRep(r[3], t, {i}, r[2])
      [] r[1] = "b" -> IF WordAt(t, i - 1) # WordAt(t, i) THEN {i} ELSE {}
      [] r[1] = "d" -> IF i <= Len(t) /\ t[i] \in Digits THEN {i + 1} ELSE {}
      [] r[1] = "s" -> IF i <= Len(t) /\ IsRegexSpace(t[i]) THEN {i + 1} ELSE {}
      [] r[1] = "any" -> IF i <= Len(t) /\ t[i] # "\n" THEN {i + 1} ELSE {}

EndsCat(rs, t, S) ==
    IF rs = <<>> \/ S = {} THEN S
    ELSE EndsCat(Tail(rs), t, EndsFrom(rs[1], t, S))

\* zero or more repetitions of r from the positions of S
Closure(r, t, S) ==
    LET more == S \cup EndsFrom(r, t, S)
    IN  IF more = S THEN S ELSE Closure(r, t, more)

\* at least min repetitions of r from the positions of S
EndsRep(r, t, S, min) ==
    IF min = 0 THEN Closure(r, t, S)
    ELSE EndsRep(r, t, EndsFrom(r, t, S), min - 1)

\* re.search(pattern, string) is not None
re_search(pattern, string) ==
    \E i \in 1..(Len(string) + 1) : Ends(pattern, string, i) # {}

(***************************************************************************)
(* categorize_post_intent  (unified_ingredient_analysis.py)                *)
(***************************************************************************)

\* the patterns dict, in its order
patterns ==
    <<
      [category |-> "ingredient_usage_patterns", pattern_list |-> <<
         \* r'\b(routine|regimen|protocol|taking|using|applying)\b'
         Cat(<<WordBoundary, Alt(<<Lit(<<"r","o","u","t","i","n","e">>),
         Lit(<<"r","e","g","i","m","e","n">>),
         Lit(<<"p","r","o","t","o","c","o","l">>),
         Lit(<<"t","a","k","i","n","g">>), Lit(<<"u","s","i","n","g">>),
         Lit(<<"a","p","p","l","y","i","n","g">>)>>), WordBoundary>>),
         \* r'\b(daily|weekly|monthly|times?\s*per\s*day)\b'
         Cat(<<WordBoundary, Alt(<<Lit(<<"d","a","i","l","y">>),
         Lit(<<"w","e","e","k","l","y">>),
         Lit(<<"m","o","n","t","h","l","y">>),
         Cat(<<Lit(<<"t","i","m","e">>), Opt(Lit(<<"s">>)), Rep(0, Space),
         Lit(<<"p","e","r">>), Rep(0, Space), Lit(<<"d","a","y">>)>>)>>),
         WordBoundary>>),
         \* r'\b(mcg|mg|dose|dosage|%|percent)\b'
         Cat(<<WordBoundary, Alt(<<Lit(<<"m","c","g">>), Lit(<<"m","g">>),
         Lit(<<"d","o","s","e">>), Lit(<<"d","o","s","a","g","e">>),
         Lit(<<"%">>), Lit(<<"p","e","r","c","e","n","t">>)>>),
         WordBoundary>>)
      >>],
      [category |-> "treatment_experiences", pattern_list |-> <<
         \* r'\b(results?|progress|experience|journey)\b'
         Cat(<<WordBoundary, Alt(<<Cat(<<Lit(<<"r","e","s","u","l","t">>),
         Opt(Lit(<<"s">>))>>), Lit(<<"p","r","o","g","r","e","s","s">>),
         Lit(<<"e","x","p","e","r","i","e","n","c","e">>),
         Lit(<<"j","o","u","r","n","e","y">>)>>), WordBoundary>>),
         \* r'\b(months?|years?|weeks?)\b.*\b(of|on|with)\b'
         Cat(<<WordBoundary, Alt(<<Cat(<<Lit(<<"m","o","n","t","h">>),
         Opt(Lit(<<"s">>))>>), Cat(<<Lit(<<"y","e","a","r">>),
         Opt(Lit(<<"s">>))>>), Cat(<<Lit(<<"w","e","e","k">>),
         Opt(Lit(<<"s">>))>>)>>), WordBoundary, Rep(0, AnyChar),
         WordBoundary, Alt(<<Lit(<<"o","f">>), Lit(<<"o","n">>),
         Lit(<<"w","i","t","h">>)>>), WordBoundary>>),
         \* r'\b(before|after|update)\b'
         Cat(<<WordBoundary, Alt(<<Lit(<<"b","e","f","o","r","e">>),
         Lit(<<"a","f","t","e","r">>), Lit(<<"u","p","d","a","t","e">>)>>),
         WordBoundary>>)
      >>],
      [category |-> "product_recommendations", pattern_list |-> <<
         \* r'\b(recommend|suggest|best|brand|product)\b'
         Cat(<<WordBoundary, Alt(<<Lit(<<"r","e","c","o","m","m","e","n","d">>),
         Lit(<<"s","u","g","g","e","s","t">>), Lit(<<"b","e","s","t">>),
         Lit(<<"b","r","a","n","d">>),
         Lit(<<"p","r","o","d","u","c","t">>)>>), WordBoundary>>),
         \* r'\b(which|what|anyone\s*know)\b'
         Cat(<<WordBoundary, Alt(<<Lit(<<"w","h","i","c","h">>),
         Lit(<<"w","h","a","t">>), Cat(<<Lit(<<"a","n","y","o","n","e">>),
         Rep(0, Space), Lit(<<"k","n","o","w">>)>>)>>), WordBoundary>>),
         \* r'\b(review|comparison)\b'
         Cat(<<WordBoundary, Alt(<<Lit(<<"r","e","v","i","e","w">>),
         Lit(<<"c","o","m","p","a","r","i","s","o","n">>)>>), WordBoundary>>)
      >>],
      [category |-> "progress_report", pattern_list |-> <<
         \* r'\b(\d+\s*(month|year|week|day)s?)\b'
         Cat(<<WordBoundary, Cat(<<Rep(1, Digit), Rep(0, Space),
         Alt(<<Lit(<<"m","o","n","t","h">>), Lit(<<"y","e","a","r">>),
         Lit(<<"w","e","e","k">>), Lit(<<"d","a","y">>)>>),
         Opt(Lit(<<"s">>))>>), WordBoundary>>),
         \* r'\b(progress|results?|update|before.*after)\b'
         Cat(<<WordBoundary, Alt(<<Lit(<<"p","r","o","g","r","e","s","s">>),
         Cat(<<Lit(<<"r","e","s","u","l","t">>), Opt(Lit(<<"s">>))>>),
         Lit(<<"u","p","d","a","t","e">>),
         Cat(<<Lit(<<"b","e","f","o","r","e">>), Rep(0, AnyChar),
         Lit(<<"a","f","t","e","r">>)>>)>>), WordBoundary>>),
         \* r'\b(pics?|pictures?|photos?)\b'
         Cat(<<WordBoundary, Alt(<<Cat(<<Lit(<<"p","i","c">>),
         Opt(Lit(<<"s">>))>>), Cat(<<Lit(<<"p","i","c","t","u","r","e">>),
         Opt(Lit(<<"s">>))>>), Cat(<<Lit(<<"p","h","o","t","o">>),
         Opt(Lit(<<"s">>))>>)>>), WordBoundary>>)
      >>],
      [category |-> "side_effects", pattern_list |-> <<
         \* r'\b(side\s*effects?|acne|breakout|cystic)\b'
         Cat(<<WordBoundary, Alt(<<Cat(<<Lit(<<"s","i","d","e">>),
         Rep(0, Space), Lit(<<"e","f","f","e","c","t">>),
         Opt(Lit(<<"s">>))>>), Lit(<<"a","c","n","e">>),
         Lit(<<"b","r","e","a","k","o","u","t">>),
         Lit(<<"c","y","s","t","i","c">>)>>), WordBoundary>>),
         \* r'\b(stopped|quit|discontinue)\b'
         Cat(<<WordBoundary, Alt(<<Lit(<<"s","t","o","p","p","e","d">>),
         Lit(<<"q","u","i","t">>),
         Lit(<<"d","i","s","c","o","n","t","i","n","u","e">>)>>),
         WordBoundary>>),
         \* r'\b(problem|issue|horror|bad)\b'
         Cat(<<WordBoundary, Alt(<<Lit(<<"p","r","o","b","l","e","m">>),
         Lit(<<"i","s","s","u","e">>), Lit(<<"h","o","r","r","o","r">>),
         Lit(<<"b","a","d">>)>>), WordBoundary>>)
      >>],
      [category |-> "dosage_questions", pattern_list |-> <<
         \* r'\b(\d+\s*(mcg|mg|%|percent|micrograms?|milligrams?))\b'
         Cat(<<WordBoundary, Cat(<<Rep(1, Digit), Rep(0, Space),
         Alt(<<Lit(<<"m","c","g">>), Lit(<<"m","g">>), Lit(<<"%">>),
         Lit(<<"p","e","r","c","e","n","t">>),
         Cat(<<Lit(<<"m","i","c","r","o","g","r","a","m">>),
         Opt(Lit(<<"s">>))>>),
         Cat(<<Lit(<<"m","i","l","l","i","g","r","a","m">>),
         Opt(Lit(<<"s">>))>>)>>)>>), WordBoundary>>),
         \* r'\b(dose|dosage|amount|how\s*much)\b'
         Cat(<<WordBoundary, Alt(<<Lit(<<"d","o","s","e">>),
         Lit(<<"d","o","s","a","g","e">>), Lit(<<"a","m","o","u","n","t">>),
         Cat(<<Lit(<<"h","o","w">>), Rep(0, Space),
         Lit(<<"m","u","c","h">>)>>)>>), WordBoundary>>),
         \* r'\b(daily|per\s*day|twice)\b'
         Cat(<<WordBoundary, Alt(<<Lit(<<"d","a","i","l","y">>),
         Cat(<<Lit(<<"p","e","r">>), Rep(0, Space), Lit(<<"d","a","y">>)>>),
         Lit(<<"t","w","i","c","e">>)>>), WordBoundary>>)
      >>],
      [category |-> "combination_therapy", pattern_list |-> <<
         \* r'\b(fin|min|finasteride|minoxidil)\b'
         Cat(<<WordBoundary, Alt(<<Lit(<<"f","i","n">>),
         Lit(<<"m","i","n">>),
         Lit(<<"f","i","n","a","s","t","e","r","i","d","e">>),
         Lit(<<"m","i","n","o","x","i","d","i","l">>)>>), WordBoundary>>),
         \* r'\b(derma.*roll|microneedling|keto)\b'
         Cat(<<WordBoundary, Alt(<<Cat(<<Lit(<<"d","e","r","m","a">>),
         Rep(0, AnyChar), Lit(<<"r","o","l","l">>)>>),
         Lit(<<"m","i","c","r","o","n","e","e","d","l","i","n","g">>),
         Lit(<<"k","e","t","o">>)>>), WordBoundary>>),
         \* r'\b(plus|with|and|\+|combo|combination)\b'
         Cat(<<WordBoundary, Alt(<<Lit(<<"p","l","u","s">>),
         Lit(<<"w","i","t","h">>), Lit(<<"a","n","d">>), Lit(<<"+">>),
         Lit(<<"c","o","m","b","o">>),
         Lit(<<"c","o","m","b","i","n","a","t","i","o","n">>)>>),
         WordBoundary>>)
      >>],
      [category |-> "scientific_discussion", pattern_list |-> <<
         \* r'\b(study|research|extraction|mechanism)\b'
         Cat(<<WordBoundary, Alt(<<Lit(<<"s","t","u","d","y">>),
         Lit(<<"r","e","s","e","a","r","c","h">>),
         Lit(<<"e","x","t","r","a","c","t","i","o","n">>),
         Lit(<<"m","e","c","h","a","n","i","s","m">>)>>), WordBoundary>>),
         \* r'\b(chemistry|scientific|analysis)\b'
         Cat(<<WordBoundary, Alt(<<Lit(<<"c","h","e","m","i","s","t","r","y">>),
         Lit(<<"s","c","i","e","n","t","i","f","i","c">>),
         Lit(<<"a","n","a","l","y","s","i","s">>)>>), WordBoundary>>),
         \* r'\b(exactly|precise|grams?)\b'
         Cat(<<WordBoundary, Alt(<<Lit(<<"e","x","a","c","t","l","y">>),
         Lit(<<"p","r","e","c","i","s","e">>),
         Cat(<<Lit(<<"g","r","a","m">>), Opt(Lit(<<"s">>))>>)>>),
         WordBoundary>>)
      >>],
      [category |-> "humor_meme", pattern_list |-> <<
         \* r'\b(lol|haha|funny|humor|joke)\b'
         Cat(<<WordBoundary, Alt(<<Lit(<<"l","o","l">>),
         Lit(<<"h","a","h","a">>), Lit(<<"f","u","n","n","y">>),
         Lit(<<"h","u","m","o","r">>), Lit(<<"j","o","k","e">>)>>),
         WordBoundary>>),
         \* r'[!]{2,}'
         Rep(2, Lit(<<"!">>)),
         \* r'\b(nobody.*cares|exactly)\b'
         Cat(<<WordBoundary, Alt(<<Cat(<<Lit(<<"n","o","b","o","d","y">>),
         Rep(0, AnyChar), Lit(<<"c","a","r","e","s">>)>>),
         Lit(<<"e","x","a","c","t","l","y">>)>>), WordBoundary>>)
      >>],
      [category |-> "seeking_advice", pattern_list |-> <<
         \* r'\b(help|advice|suggest|recommend)\b'
         Cat(<<WordBoundary, Alt(<<Lit(<<"h","e","l","p">>),
         Lit(<<"a","d","v","i","c","e">>),
         Lit(<<"s","u","g","g","e","s","t">>),
         Lit(<<"r","e","c","o","m","m","e","n","d">>)>>), WordBoundary>>),
         \* r'\b(should\s*i|what.*do|anyone)\b'
         Cat(<<WordBoundary, Alt(<<Cat(<<Lit(<<"s","h","o","u","l","d">>),
         Rep(0, Space), Lit(<<"i">>)>>), Cat(<<Lit(<<"w","h","a","t">>),
         Rep(0, AnyChar), Lit(<<"d","o">>)>>),
         Lit(<<"a","n","y","o","n","e">>)>>), WordBoundary>>),
         \* r'\?'
         Lit(<<"?">>)
      >>]
    >>

\* the keys of the categories dict
IntentCategories == { patterns[k].category : k \in 1..Len(patterns) }

\* f"{title} {body} {comments_text}".lower()
CombinedText(t, b, c) == Lower(t \o <<" ">> \o b \o <<" ">> \o c)

RECURSIVE AnyPatternMatches(_, _)
\* the inner loop: the patterns of one category in their order, left at the
\* first one that matches
AnyPatternMatches(pattern_list, combined_text) ==
    IF pattern_list = <<>> THEN FALSE
    ELSE IF re_search(pattern_list[1], combined_text) THEN TRUE
    ELSE AnyPatternMatches(Tail(pattern_list), combined_text)

RECURSIVE CategoryLoopFirstOnly(_, _, _)
\* the outer loop left at the first category that matches: a plausible slip
\* that makes the result single-label
CategoryLoopFirstOnly(cats, k, combined_text) ==
    IF k > Len(patterns) THEN cats
    ELSE IF AnyPatternMatches(patterns[k].pattern_list, combined_text)
         THEN [cats EXCEPT ![patterns[k].category] = TRUE]
         ELSE CategoryLoopFirstOnly(cats, k + 1, combined_text)

RECURSIVE CategoryLoop(_, _, _)
\* the outer loop, from the k-th item of patterns on
CategoryLoop(cats, k, combined_text) ==
    IF k > Len(patterns) THEN cats
    ELSE CategoryLoop(
            IF AnyPatternMatches(patterns[k].pattern_list, combined_text)
            THEN [cats EXCEPT ![patterns[k].category] = TRUE]
            ELSE cats,
            k + 1, combined_text)

categorize_post_intent(t, b, c) ==
    CategoryLoop([cat \in IntentCategories |-> FALSE], 1, CombinedText(t, b, c))

(***************************************************************************)
(* Specification SpecIntent: one call of categorize_post_intent            *)
(***************************************************************************)

\* post titles
TitlePool ==
    { <<"W","h","a","t"," ","d","o","s","a","g","e"," ","o","f"," ","X"," ","s","h","o","u","l","d"," ","I"," ","t","a","k","e"," ","d","a","i","l","y","?">>,
      <<"B","i","o","t","i","n"," ","5","0","0","0"," ","m","c","g"," ","r","e","s","u","l","t","s">>,
      <<"L","O","L"," ","n","o","b","o","d","y"," ","e","v","e","n"," ","c","a","r","e","s","!","!">>,
      <<"M","i","n","o","x","i","d","i","l"," ","s","t","u","d","y">>,
      <<"3"," ","m","o","n","t","h","s"," ","o","n"," ","f","i","n">>,
      <<"S","h","i","n","y"," ","h","a","i","r">>,
      <<>> }

\* post bodies
IntentBodyPool ==
    { <<>>,
      <<"m","y"," ","a","c","n","e"," ","g","o","t"," ","b","a","d">>,
      <<"A","n","y"," ","b","r","a","n","d"," ","t","o"," ","s","u","g","g","e","s","t">>,
      <<"u","s","e"," ","5","%","a"," ","d","a","y">> }

\* the comments of a post, joined
CommentsTextPool ==
    { <<>>,
      <<"g","r","e","a","t"," ","p","i","c","s">>,
      <<"I"," ","q","u","i","t">>,
      <<"s","o"," ","h","e","l","p","f","u","l","!">> }

InitIntent ==
    /\ title \in TitlePool
    /\ body \in IntentBodyPool
    /\ comments_text \in CommentsTextPool
    /\ categories = None
    /\ pc = "call"
    /\ VADER_AVAILABLE = TRUE
    /\ IdleScore
    /\ IdlePost
    /\ IdleStats
    /\ IdleIngredient
    /\ IdleUsage
    /\ IdleBenefit
    /\ IdleSearch

CategorizePostIntent ==
    /\ pc = "call"
    /\ categories = None
    /\ categories' = categorize_post_intent(title, body, comments_text)
    /\ pc' = "returned"
    /\ UNCHANGED <<VADER_AVAILABLE, benefitVars, searchVars, scoreVars, postVars, statsVars, ingredientVars,
                   usageVars, title, body, comments_text>>

NextIntent == CategorizePostIntent

SpecIntent == InitIntent /\ [][NextIntent]_vars

\* the ten keys of the taxonomy
TenCategories ==
    {"ingredient_usage_patterns", "treatment_experiences", "product_recommendations",
     "progress_report", "side_effects", "dosage_questions", "combination_therapy",
     "scientific_discussion", "humor_meme", "seeking_advice"}

\* one of the triggers of category cat matches the combined text
Triggered(cat) ==
    \E k \in 1..Len(patterns) :
        /\ patterns[k].category = cat
        /\ \E j \in 1..Len(patterns[k].pattern_list) :
              re_search(patterns[k].pattern_list[j],
                        CombinedText(title, body, comments_text))

ScenarioTitle ==
    <<"W","h","a","t"," ","d","o","s","a","g","e"," ","o","f"," ","X"," ","s","h","o","u","l","d"," ","I"," ","t","a","k","e"," ","d","a","i","l","y","?">>

\* C9: the result of categorize_post_intent has exactly the ten category
\* keys, each category is TRUE exactly when one of its own patterns matches
\* the combined text, whatever the other categories are, and the title
\* "What dosage of X should I take daily?" with an empty body sets both
\* dosage_questions and seeking_advice.
C9_MultiLabel ==
    categories # None =>
        /\ DOMAIN categories = TenCategories
        /\ \A cat \in TenCategories : categories[cat] = Triggered(cat)
        /\ (title = ScenarioTitle /\ body = <<>>) =>
              categories["dosage_questions"] /\ categories["seeking_advice"]

\* the scenario title was categorised, and got two labels
C9_Witness ==
    /\ categories # None
    /\ title = ScenarioTitle
    /\ body = <<>>
    /\ comments_text = <<>>
    /\ categories["dosage_questions"]
    /\ categories["seeking_advice"]

(***************************************************************************)
(* classify_skin_hair_usage  (combine_ingredient_data_to_csv.py)           *)
(***************************************************************************)

\* hair_keywords
hair_keywords ==
    << <<"s","h","a","m","p","o","o">>,
       <<"c","o","n","d","i","t","i","o","n","e","r">>, <<"h","a","i","r">>,
       <<"s","c","a","l","p">>, <<"d","a","n","d","r","u","f","f">>,
       <<"s","e","b","o","r","r","h","e","i","c">>,
       <<"f","o","l","l","i","c","l","e">>, <<"g","r","o","w","t","h">>,
       <<"s","t","r","e","n","g","t","h","e","n","i","n","g">>,
       <<"d","e","t","a","n","g","l","i","n","g">>,
       <<"v","o","l","u","m","i","z","i","n","g">>,
       <<"a","n","t","i","-","d","a","n","d","r","u","f","f">>,
       <<"h","a","i","r"," ","l","o","s","s">>,
       <<"a","l","o","p","e","c","i","a">>,
       <<"t","h","i","n","n","i","n","g">> >>

\* skin_keywords
skin_keywords ==
    << <<"m","o","i","s","t","u","r","i","z","i","n","g">>,
       <<"h","y","d","r","a","t","i","n","g">>,
       <<"a","n","t","i","-","a","g","i","n","g">>,
       <<"w","r","i","n","k","l","e">>, <<"a","c","n","e">>,
       <<"c","o","m","e","d","o","g","e","n","i","c">>,
       <<"f","a","c","i","a","l">>, <<"s","e","r","u","m">>,
       <<"c","r","e","a","m">>, <<"l","o","t","i","o","n">>,
       <<"c","l","e","a","n","s","e","r">>,
       <<"e","x","f","o","l","i","a","t">>,
       <<"b","r","i","g","h","t","e","n","i","n","g">>,
       <<"l","i","g","h","t","e","n","i","n","g">>,
       <<"s","u","n"," ","p","r","o","t","e","c","t","i","o","n">>,
       <<"s","p","f">>,
       <<"a","n","t","i","-","i","n","f","l","a","m","m","a","t","o","r","y">>,
       <<"s","o","o","t","h","i","n","g">>, <<"c","a","l","m","i","n","g">>,
       <<"b","a","r","r","i","e","r"," ","r","e","p","a","i","r">> >>

\* hair_specific_ingredients
hair_specific_ingredients ==
    << <<"z","i","n","c"," ","p","y","r","i","t","h","i","o","n","e">>,
       <<"s","e","l","e","n","i","u","m"," ","s","u","l","f","i","d","e">>,
       <<"k","e","t","o","c","o","n","a","z","o","l","e">>,
       <<"c","l","i","m","b","a","z","o","l","e">>,
       <<"p","i","r","o","c","t","o","n","e"," ","o","l","a","m","i","n","e">>,
       <<"c","e","t","r","i","m","o","n","i","u","m">>,
       <<"b","e","h","e","n","t","r","i","m","o","n","i","u","m">>,
       <<"p","o","l","y","q","u","a","t","e","r","n","i","u","m">>,
       <<"g","u","a","r"," ","h","y","d","r","o","x","y","p","r","o","p","y","l","t","r","i","m","o","n","i","u","m">> >>

\* skin_specific_ingredients
skin_specific_ingredients ==
    << <<"s","a","l","i","c","y","l","i","c"," ","a","c","i","d">>,
       <<"g","l","y","c","o","l","i","c"," ","a","c","i","d">>,
       <<"r","e","t","i","n","o","l">>,
       <<"n","i","a","c","i","n","a","m","i","d","e">>,
       <<"h","y","a","l","u","r","o","n","i","c"," ","a","c","i","d">>,
       <<"a","s","c","o","r","b","i","c"," ","a","c","i","d">>,
       <<"k","o","j","i","c"," ","a","c","i","d">> >>

\* universal_keywords
universal_keywords ==
    << <<"p","r","e","s","e","r","v","a","t","i","v","e">>,
       <<"e","m","u","l","s","i","f","i","e","r">>,
       <<"t","h","i","c","k","e","n","e","r">>,
       <<"s","t","a","b","i","l","i","z","e","r">>,
       <<"f","r","a","g","r","a","n","c","e">>,
       <<"c","o","l","o","r","a","n","t">>,
       <<"p","h"," ","a","d","j","u","s","t","e","r">>,
       <<"c","h","e","l","a","t","i","n","g">>,
       <<"a","n","t","i","o","x","i","d","a","n","t">> >>

\* ['sulfate', 'glucoside', 'betaine']
cleansing_agents ==
    << <<"s","u","l","f","a","t","e">>,
       <<"g","l","u","c","o","s","i","d","e">>,
       <<"b","e","t","a","i","n","e">> >>

RECURSIVE Join(_, _)
\* sep.join(items)
Join(sep, items) ==
    IF items = <<>> THEN <<>>
    ELSE IF Len(items) = 1 THEN items[1]
    ELSE items[1] \o sep \o Join(sep, Tail(items))

\* ' '.join(functions).lower() if functions else ''
FunctionsText(fs) ==
    IF fs.kind = "list" /\ fs.items # <<>> THEN Lower(Join(<<" ">>, fs.items))
    ELSE <<>>

\* number of the words of the list that occur in text
Hits(words, text) ==
    Cardinality({ k \in 1..Len(words) : Contains(text, words[k]) })

\* one point for a hit in the functions: a plausible slip of the code
hair_score_unit(fs, name) ==
    Hits(hair_keywords, FunctionsText(fs))
    + 3 * Hits(hair_specific_ingredients, Lower(name))

hair_score(fs, name) ==
    2 * Hits(hair_keywords, FunctionsText(fs))
    + 3 * Hits(hair_specific_ingredients, Lower(name))

skin_score(fs, name) ==
    2 * Hits(skin_keywords, FunctionsText(fs))
    + 3 * Hits(skin_specific_ingredients, Lower(name))

universal_score(fs) == Hits(universal_keywords, FunctionsText(fs))

\* the last branch leaving the label to the caller when the name is not
\* that of a cleansing agent: a plausible slip
DefaultUsageUnset(inci_lower) ==
    IF AnyWordIn(cleansing_agents, inci_lower) THEN "Both" ELSE Unassigned

\* the last branch: "Both" for a cleansing agent, and "Both" otherwise
DefaultUsage(inci_lower) ==
    IF AnyWordIn(cleansing_agents, inci_lower) THEN "Both" ELSE "Both"

\* the shared rule tried first: a plausible slip of the code
classify_skin_hair_usage_shared_first(fs, name) ==
    LET hair == hair_score(fs, name)
        skin == skin_score(fs, name)
    IN  IF universal_score(fs) >= 2 \/ (hair > 0 /\ skin > 0) THEN "Both"
        ELSE IF hair > skin + 1 THEN "Hair Care"
        ELSE IF skin > hair + 1 THEN "Skin Care"
        ELSE DefaultUsage(Lower(name))

classify_skin_hair_usage(fs, name) ==
    LET hair == hair_score(fs, name)
        skin == skin_score(fs, name)
    IN  IF hair > skin + 1 THEN "Hair Care"
        ELSE IF skin > hair + 1 THEN "Skin Care"
        ELSE IF universal_score(fs) >= 2 \/ (hair > 0 /\ skin > 0) THEN "Both"
        ELSE DefaultUsage(Lower(name))

(***************************************************************************)
(* Specification SpecUsage: one call of classify_skin_hair_usage           *)
(***************************************************************************)

\* longest functions list
MaxFunctions == 2

\* function descriptions of the INCI data
FunctionPool ==
    { <<"A","n","t","i","-","D","a","n","d","r","u","f","f">>,
      <<"H","a","i","r"," ","c","o","n","d","i","t","i","o","n","i","n","g">>,
      <<"M","o","i","s","t","u","r","i","z","i","n","g">>,
      <<"P","r","e","s","e","r","v","a","t","i","v","e">>,
      <<"A","n","t","i","o","x","i","d","a","n","t">>,
      <<"S","u","r","f","a","c","t","a","n","t">>,
      <<>> }

\* ingredient names
NamePool ==
    { <<"Z","i","n","c"," ","P","y","r","i","t","h","i","o","n","e">>,
      <<"S","a","l","i","c","y","l","i","c"," ","A","c","i","d">>,
      <<"W","a","t","e","r">>,
      <<"S","o","d","i","u","m"," ","L","a","u","r","y","l"," ","S","u","l","f","a","t","e">>,
      <<"R","E","T","I","N","O","L">> }

\* inci_data['functions'] is a list of strings, [] when there is no INCI
\* data; None is the other value the signature is called with
FunctionsInputs ==
    {NoneArg} \cup { ListArg(l) : l \in SeqsUpTo(FunctionPool, MaxFunctions) }

InitUsage ==
    /\ functions \in FunctionsInputs
    /\ inci_name \in NamePool
    /\ skin_hair_usage = Unassigned
    /\ pc = "call"
    /\ VADER_AVAILABLE = TRUE
    /\ IdleScore
    /\ IdlePost
    /\ IdleStats
    /\ IdleIngredient
    /\ IdleIntent
    /\ IdleBenefit
    /\ IdleSearch

ClassifySkinHairUsage ==
    /\ pc = "call"
    /\ skin_hair_usage' = classify_skin_hair_usage(functions, inci_name)
    /\ pc' = "returned"
    /\ UNCHANGED <<VADER_AVAILABLE, benefitVars, searchVars, scoreVars, postVars, statsVars, ingredientVars,
                   intentVars, functions, inci_name>>

NextUsage == ClassifySkinHairUsage

SpecUsage == InitUsage /\ [][NextUsage]_vars

UsageLabels == {"Hair Care", "Skin Care", "Both"}

\* no hair keyword, no skin keyword and no universal keyword occurs in the
\* functions text
NoKeywordMatches ==
    /\ Hits(hair_keywords, FunctionsText(functions)) = 0
    /\ Hits(skin_keywords, FunctionsText(functions)) = 0
    /\ Hits(universal_keywords, FunctionsText(functions)) = 0

\* no name of the two curated lists occurs in the ingredient name
NoNameMatches ==
    /\ Hits(hair_specific_ingredients, Lower(inci_name)) = 0
    /\ Hits(skin_specific_ingredients, Lower(inci_name)) = 0

\* C10 as stated: the call returns one of the three labels, and "Both"
\* whenever no hair, skin or universal keyword matches.
C10_AsClaimed ==
    pc = "returned" =>
        /\ skin_hair_usage \in UsageLabels
        /\ NoKeywordMatches => skin_hair_usage = "Both"

\* C10: for every list of function strings (empty and None included) and
\* every name the call returns one of "Hair Care", "Skin Care" and "Both",
\* and it returns "Both" whenever no hair, skin or universal keyword matches
\* the functions and no curated ingredient name matches the name.
C10_TotalWithDefault ==
    pc = "returned" =>
        /\ skin_hair_usage \in UsageLabels
        /\ (NoKeywordMatches /\ NoNameMatches) => skin_hair_usage = "Both"

\* the default branch was taken: nothing matched, for None and for a list
C10_Witness ==
    /\ pc = "returned"
    /\ NoKeywordMatches
    /\ NoNameMatches
    /\ functions.kind = "list"
    /\ Len(functions.items) = MaxFunctions
    /\ skin_hair_usage = "Both"


\* C26: the rules are applied in strict order: the label is "Hair Care"
\* whenever hair_score > skin_score + 1 and "Skin Care" whenever
\* skin_score > hair_score + 1, even when the universal tally is 2 or more;
\* "Both" is returned only when neither score leads by more than 1, and
\* then always when the universal tally is at least 2 or both scores are
\* nonzero.
C26_RulesInOrder ==
    pc = "returned" =>
        LET hair == hair_score(functions, inci_name)
            skin == skin_score(functions, inci_name)
            universal == universal_score(functions)
        IN  /\ hair > skin + 1 => skin_hair_usage = "Hair Care"
            /\ skin > hair + 1 => skin_hair_usage = "Skin Care"
            /\ skin_hair_usage = "Both" => (hair <= skin + 1 /\ skin <= hair + 1)
            /\ (hair <= skin + 1 /\ skin <= hair + 1
                  /\ (universal >= 2 \/ (hair > 0 /\ skin > 0)))
                  => skin_hair_usage = "Both"

\* the hair label although two universal functions are listed
C26_Witness ==
    /\ pc = "returned"
    /\ skin_hair_usage = "Hair Care"
    /\ universal_score(functions) >= 2

\* C29: the last branch is reached only with hair_score = 0, skin_score = 0
\* and a universal tally below 2: a hit adds at least 2, so when exactly
\* one of the two scores is nonzero the label of that category is returned,
\* whatever the universal tally.
C29_DefaultOnlyWithoutHits ==
    pc = "returned" =>
        LET hair == 2 * Hits(hair_keywords, FunctionsText(functions))
                    + 3 * Hits(hair_specific_ingredients, Lower(inci_name))
            skin == skin_score(functions, inci_name)
            universal == universal_score(functions)
        IN  /\ (hair > 0 /\ skin = 0) => skin_hair_usage = "Hair Care"
            /\ (skin > 0 /\ hair = 0) => skin_hair_usage = "Skin Care"
            /\ (~(hair > skin + 1) /\ ~(skin > hair + 1)
                  /\ ~(universal >= 2 \/ (hair > 0 /\ skin > 0)))
                  => (hair = 0 /\ skin = 0 /\ universal < 2)

\* a skin ingredient without any hit for hair and with two universal
\* functions
C29_Witness ==
    /\ pc = "returned"
    /\ skin_score(functions, inci_name) > 0
    /\ Hits(hair_keywords, FunctionsText(functions)) = 0
    /\ Hits(hair_specific_ingredients, Lower(inci_name)) = 0
    /\ universal_score(functions) >= 2
    /\ skin_hair_usage = "Skin Care"

(***************************************************************************)
(* extract_benefit_statements  (unified_ingredient_analysis.py)            *)
(***************************************************************************)

\* the argument target_ingredient: None or a string
StrArg(chars) == [kind |-> "str", chars |-> chars]

\* ingredient_name.replace("_", r"\s*").replace(" ", r"\s*") as a pattern
IngredientPattern(ingredient_name) ==
    Cat([i \in 1..Len(ingredient_name) |->
            IF ingredient_name[i] \in {"_", " "} THEN Rep(0, Space)
            ELSE Lit(<<ingredient_name[i]>>)])

\* the list benefit_patterns, in its order
benefit_patterns(ingredient_pattern, is_positive) ==
    IF is_positive
    THEN <<
          \* rf'{ingredient_pattern}.*(?:helped|improved|better|works|effective|great|amazing).*(?:hair|skin|nails|growth)'
          Cat(<<ingredient_pattern,
             Rep(0, AnyChar),
             Alt(<<Lit(<<"h","e","l","p","e","d">>), Lit(<<"i","m","p","r","o","v","e","d">>), Lit(<<"b","e","t","t","e","r">>), Lit(<<"w","o","r","k","s">>), Lit(<<"e","f","f","e","c","t","i","v","e">>), Lit(<<"g","r","e","a","t">>), Lit(<<"a","m","a","z","i","n","g">>)>>),
             Rep(0, AnyChar),
             Alt(<<Lit(<<"h","a","i","r">>), Lit(<<"s","k","i","n">>), Lit(<<"n","a","i","l","s">>), Lit(<<"g","r","o","w","t","h">>)>>)>>),
          \* rf'(?:hair|skin|nails).*(?:grew|stronger|thicker|healthier|improved).*{ingredient_pattern}'
          Cat(<<Alt(<<Lit(<<"h","a","i","r">>), Lit(<<"s","k","i","n">>), Lit(<<"n","a","i","l","s">>)>>),
             Rep(0, AnyChar),
             Alt(<<Lit(<<"g","r","e","w">>), Lit(<<"s","t","r","o","n","g","e","r">>), Lit(<<"t","h","i","c","k","e","r">>), Lit(<<"h","e","a","l","t","h","i","e","r">>), Lit(<<"i","m","p","r","o","v","e","d">>)>>),
             Rep(0, AnyChar),
             ingredient_pattern>>),
          \* rf'{ingredient_pattern}.*(?:results|progress|difference|improvement)'
          Cat(<<ingredient_pattern,
             Rep(0, AnyChar),
             Alt(<<Lit(<<"r","e","s","u","l","t","s">>), Lit(<<"p","r","o","g","r","e","s","s">>), Lit(<<"d","i","f","f","e","r","e","n","c","e">>), Lit(<<"i","m","p","r","o","v","e","m","e","n","t">>)>>)>>),
          \* rf'(?:love|recommend|best).*{ingredient_pattern}'
          Cat(<<Alt(<<Lit(<<"l","o","v","e">>), Lit(<<"r","e","c","o","m","m","e","n","d">>), Lit(<<"b","e","s","t">>)>>),
             Rep(0, AnyChar),
             ingredient_pattern>>),
          \* rf'{ingredient_pattern}.*(?:fixed|solved|helped with)'
          Cat(<<ingredient_pattern,
             Rep(0, AnyChar),
             Alt(<<Lit(<<"f","i","x","e","d">>), Lit(<<"s","o","l","v","e","d">>), Lit(<<"h","e","l","p","e","d"," ","w","i","t","h">>)>>)>>)
         >>
    ELSE <<
          \* rf'{ingredient_pattern}.*(?:caused|triggered|gave me).*(?:acne|breakout|cystic|pimples)'
          Cat(<<ingredient_pattern,
             Rep(0, AnyChar),
             Alt(<<Lit(<<"c","a","u","s","e","d">>), Lit(<<"t","r","i","g","g","e","r","e","d">>), Lit(<<"g","a","v","e"," ","m","e">>)>>),
             Rep(0, AnyChar),
             Alt(<<Lit(<<"a","c","n","e">>), Lit(<<"b","r","e","a","k","o","u","t">>), Lit(<<"c","y","s","t","i","c">>), Lit(<<"p","i","m","p","l","e","s">>)>>)>>),
          \* rf'(?:stopped|quit|discontinued).*{ingredient_pattern}.*(?:because|due to)'
          Cat(<<Alt(<<Lit(<<"s","t","o","p","p","e","d">>), Lit(<<"q","u","i","t">>), Lit(<<"d","i","s","c","o","n","t","i","n","u","e","d">>)>>),
             Rep(0, AnyChar),
             ingredient_pattern,
             Rep(0, AnyChar),
             Alt(<<Lit(<<"b","e","c","a","u","s","e">>), Lit(<<"d","u","e"," ","t","o">>)>>)>>),
          \* rf'{ingredient_pattern}.*(?:side effect|problem|issue|bad|worse)'
          Cat(<<ingredient_pattern,
             Rep(0, AnyChar),
             Alt(<<Lit(<<"s","i","d","e"," ","e","f","f","e","c","t">>), Lit(<<"p","r","o","b","l","e","m">>), Lit(<<"i","s","s","u","e">>), Lit(<<"b","a","d">>), Lit(<<"w","o","r","s","e">>)>>)>>),
          \* rf'(?:acne|breakout|cystic).*{ingredient_pattern}'
          Cat(<<Alt(<<Lit(<<"a","c","n","e">>), Lit(<<"b","r","e","a","k","o","u","t">>), Lit(<<"c","y","s","t","i","c">>)>>),
             Rep(0, AnyChar),
             ingredient_pattern>>),
          \* rf'{ingredient_pattern}.*(?:doesn\'t work|useless|ineffective|disappointing)'
          Cat(<<ingredient_pattern,
             Rep(0, AnyChar),
             Alt(<<Lit(<<"d","o","e","s","n","'","t"," ","w","o","r","k">>), Lit(<<"u","s","e","l","e","s","s">>), Lit(<<"i","n","e","f","f","e","c","t","i","v","e">>), Lit(<<"d","i","s","a","p","p","o","i","n","t","i","n","g">>)>>)>>)
         >>

\* the end of the match that starts at position i: with these patterns the
\* greedy search ends at the last place where the pattern can end
MatchEnd(r, t, i) ==
    CHOOSE e \in Ends(r, t, i) : \A f \in Ends(r, t, i) : f <= e

RECURSIVE FindIterFrom(_, _, _)
\* the matches of re.finditer from position from on, left to right and
\* without overlap, as [start, end) in the 0-based positions of Python
FindIterFrom(r, t, from) ==
    LET starts == { i \in from..(Len(t) + 1) : Ends(r, t, i) # {} }
    IN  IF starts = {} THEN <<>>
        ELSE LET i == CHOOSE j \in starts : \A k \in starts : j <= k
                 e == MatchEnd(r, t, i)
             IN  <<[start |-> i - 1, end |-> e - 1]>>
                 \o FindIterFrom(r, t, IF e > i THEN e ELSE e + 1)

\* re.finditer(pattern, string)
finditer(pattern, string) == FindIterFrom(pattern, string, 1)

\* text[start:end].strip() around a match
Context(text, match) ==
    LET start == Max(0, match.start - 50)
        end == Min(Len(text), match.end + 50)
    IN  Strip(SubSeq(text, start + 1, end))

\* the statements one pattern appends
StatementsOf(pattern, text) ==
    LET matches == finditer(pattern, Lower(text))
        contexts == [k \in 1..Len(matches) |-> Context(text, matches[k])]
    IN  SelectSeq(contexts, LAMBDA context : context # <<>> /\ Len(context) > 20)

RECURSIVE Concat(_)
\* the lists of a list, one after the other
Concat(lists) ==
    IF lists = <<>> THEN <<>> ELSE Head(lists) \o Concat(Tail(lists))

\* the list statements when the loops are over
CollectedStatements(text, target, is_positive) ==
    LET ingredient_name ==
            IF target.kind = "str" /\ target.chars # <<>> THEN Lower(target.chars)
            ELSE <<"i","n","g","r","e","d","i","e","n","t">>
        ps == benefit_patterns(IngredientPattern(ingredient_name), is_positive)
    IN  Concat([k \in 1..Len(ps) |-> StatementsOf(ps[k], text)])

\* every statement returned: a plausible slip of the code
ReturnedStatementsUncapped(collected) == collected

\* return statements[:5]
ReturnedStatements(collected) == Take(collected, 5)

extract_benefit_statements(text, target, is_positive) ==
    ReturnedStatements(CollectedStatements(text, target, is_positive))

(***************************************************************************)
(* Specification SpecBenefit: one call of extract_benefit_statements       *)
(***************************************************************************)

\* most lines of a text
MaxLines == 3

\* lines of the comments text
BenefitLines ==
    { <<"I"," ","l","o","v","e"," ","b","i","o","t","i","n">>,
      <<"M","y"," ","s","k","i","n"," ","i","m","p","r","o","v","e","d"," ","w","i","t","h"," ","B","i","o","t","i","n",","," ","r","e","a","l"," ","p","r","o","g","r","e","s","s">>,
      <<"b","i","o","t","i","n"," ","c","a","u","s","e","d"," ","b","a","d"," ","a","c","n","e">>,
      <<"t","h","i","s"," ","i","n","g","r","e","d","i","e","n","t"," ","m","a","d","e"," ","a"," ","d","i","f","f","e","r","e","n","c","e"," "," "," ">> }

BenefitTexts ==
    { Join(<<"\n">>, ls) : ls \in SeqsUpTo(BenefitLines, MaxLines) }

TargetPool == { NoneArg, StrArg(<<"B","i","o","t","i","n">>) }

InitBenefit ==
    /\ benefit_text \in BenefitTexts
    /\ target_ingredient \in TargetPool
    /\ positive \in BOOLEAN
    /\ statements = <<>>
    /\ pc = "call"
    /\ VADER_AVAILABLE = TRUE
    /\ IdleScore
    /\ IdlePost
    /\ IdleStats
    /\ IdleIngredient
    /\ IdleIntent
    /\ IdleUsage
    /\ IdleSearch

ExtractBenefitStatements ==
    /\ pc = "call"
    /\ statements' = extract_benefit_statements(benefit_text, target_ingredient, positive)
    /\ pc' = "returned"
    /\ UNCHANGED <<VADER_AVAILABLE, scoreVars, postVars, statsVars, ingredientVars,
                   intentVars, usageVars, searchVars, benefit_text,
                   target_ingredient, positive>>

NextBenefit == ExtractBenefitStatements

SpecBenefit == InitBenefit /\ [][NextBenefit]_vars

\* C25: extract_benefit_statements never returns more than 5 statements,
\* and what it returns is the beginning of the list of the qualifying
\* matches in scan order (the patterns in their listed order, the matches
\* of one pattern from left to right): the first 5 when more than 5 qualify.
C25_FirstFiveInScanOrder ==
    pc = "returned" =>
        LET collected == CollectedStatements(benefit_text, target_ingredient, positive)
            n == Len(collected)
        IN  /\ Len(statements) <= 5
            /\ Len(statements) = (IF n > 5 THEN 5 ELSE n)
            /\ \A k \in 1..Len(statements) : statements[k] = collected[k]

\* more than 5 matches qualified, and the sixth differs from the five
\* returned
C25_Witness ==
    /\ pc = "returned"
    /\ Len(statements) = 5
    /\ LET collected == CollectedStatements(benefit_text, target_ingredient, positive)
       IN  /\ Len(collected) > 5
           /\ \A k \in 1..5 : collected[6] # statements[k]


(***************************************************************************)
(* search_reddit  (reddit_api_connector.py and                             *)
(* misc_py_root/reddit_api_connector.py, the same code)                    *)
(***************************************************************************)

\* greatest max_results a caller passes
MaxResultsArg == 4

\* most children on one page of the server
MaxPage == 3

\* the cursor data.get('after') of a page that has a successor
Cursor == [cursor |-> "t3_next"]

\* the children of page number page with k results
Children(page, k) == [j \in 1..k |-> [page |-> page, pos |-> j]]

\* what one request gives: an exception (also raise_for_status), or a page
\* of children with or without a cursor
SearchResponses ==
    { [kind |-> "error"] }
    \cup { [kind |-> "ok", size |-> k, after |-> a] :
             k \in 0..MaxPage, a \in {None, Cursor} }

\* number of the page the next request asks for
NextPage == IF all_results = <<>> THEN 1 ELSE all_results[Len(all_results)].page + 1

(***************************************************************************)
(* Specification SpecSearch: one call of search_reddit, one step for each  *)
(* evaluation of the loop condition                                        *)
(***************************************************************************)

InitSearch ==
    /\ max_results \in 0..MaxResultsArg
    /\ all_results = <<>>
    /\ after = None
    /\ fetched = 0
    /\ pc = "loop"
    /\ VADER_AVAILABLE = TRUE
    /\ IdleScore
    /\ IdlePost
    /\ IdleStats
    /\ IdleIngredient
    /\ IdleIntent
    /\ IdleUsage
    /\ IdleBenefit

\* one iteration of `while fetched < max_results`
SearchIteration ==
    /\ pc = "loop"
    /\ fetched < max_results
    /\ \E resp \in SearchResponses :
          IF resp.kind = "error"
          THEN /\ pc' = "returned"
               /\ UNCHANGED <<all_results, fetched, after>>
          ELSE LET children == Children(NextPage, resp.size)
               IN  /\ all_results' = all_results \o children
                   /\ fetched' = fetched + Len(children)
                   /\ after' = resp.after
                   /\ pc' = IF resp.after = None \/ children = <<>>
                            THEN "returned" ELSE "loop"
    /\ UNCHANGED <<VADER_AVAILABLE, scoreVars, postVars, statsVars, ingredientVars,
                   intentVars, usageVars, benefitVars, max_results>>

\* the loop condition is false: return all_results
SearchReturn ==
    /\ pc = "loop"
    /\ fetched >= max_results
    /\ pc' = "returned"
    /\ UNCHANGED <<VADER_AVAILABLE, scoreVars, postVars, statsVars, ingredientVars,
                   intentVars, usageVars, benefitVars, searchVars>>

NextSearch ==
    \/ SearchIteration
    \/ SearchReturn

SpecSearch == InitSearch /\ [][NextSearch]_vars

\* C30: search_reddit returns at most max_results results, whatever the
\* sizes of the pages the server returns; every iteration that does not
\* stop the loop increases the fetched count, which counts the results
\* collected.
C30_AtMostMaxResults ==
    /\ fetched = Len(all_results)
    /\ pc = "returned" => Len(all_results) <= max_results

=============================================================================
